---- MODULE Spec2Model ----
(***************************************************************************)
(* Postis shipment synchronisation engine of backend/services:             *)
(*   postis_sync_service.py  (single-flight orchestrator, one run, loop)   *)
(*   shipments_service.py    (blank-safe upsert writer)                    *)
(* Tasks of the asyncio event loop are interleaved at their await points:  *)
(* one action is the code a task runs from one suspension to the next.     *)
(***************************************************************************)
EXTENDS Integers, Sequences, FiniteSets, TLC

\* ------------------------------------------------------------------ bounds
MaxCallers == 2        \* HTTP callers of POST /postis/sync; caller c's task is task c
MaxRuns == 2           \* run starts (the clock that stamps started_at)
NumAwbs == 2           \* identifiers of the remote list in SpecRun
MaxConcurrency == 2    \* cfg.concurrency values tried in SpecRun
MaxUpserts == 2        \* upsert_shipment_and_events calls in SpecUpsert
MaxCalls == 2          \* detail fetches of one run in SpecClient
MaxSends == 3          \* sends of one request explored in SpecClient
MaxTime == 2           \* awbStatusDate values 1 .. MaxTime in SpecChanges
MaxNow == 6            \* ticks of time.monotonic() in SpecCadence
IntervalTicks == 2     \* cfg.interval_seconds in ticks
MaxJitter == 1         \* cfg.startup_jitter_seconds in ticks, when set
MaxRows == 4           \* rows of the shipments table in SpecKeys
MaxPages == 3          \* pages the list endpoint holds in SpecList
MaxItems == 2          \* items of the remote list in SpecSync

\* ------------------------------------------------------- program constants
CommitEveryList == 200     \* _db_apply_postis_list_payloads(commit_every=200)
CommitEveryDetails == 50   \* _db_apply_postis_payloads(commit_every=50)
SuffixMinLen == 13                 \* a parcel suffix is looked for from this length on
SuffixLen == 3                     \* the length of a parcel suffix
CoreMinLen == 8                    \* the least length of the core left by stripping
TokenMinLen == 6                   \* shorter tokens of a scanned text are noise
MaxCandidates == 12                \* the candidate list is cut to this length
GoodEnough == 10           \* best_score >= 10 ends a detail fetch early

\* --------------------------------------------------------------- universes
Loop == 0                          \* the task running postis_poll_loop
Callers == 1 .. MaxCallers
Tasks == {Loop} \cup Callers
NoTask == -1
None == "None"                     \* Python None where the other values are strings
Nothing == <<>>                    \* Python None where the other values are not
Some(x) == <<x>>
NoCap == 0                         \* max_awbs_per_run None (values <= 0 are read as None)
NoTime == 0                        \* a timestamp that is None
OrchAwbs == {1}                    \* remote list of Spec
RunAwbs == 1 .. NumAwbs            \* remote list of SpecRun
AllAwbs == OrchAwbs \cup RunAwbs
RunPcs == {"listFetch", "select", "listUpsert", "detailFetch", "detailUpsert"}
Dialects == {"postgresql", "sqlite"}

VARIABLES
    pc,                  \* [Tasks -> position of the task]
    lockHolder,          \* owner of _SYNC_LOCK, or NoTask
    lockWaiters,         \* FIFO of tasks blocked in _SYNC_LOCK.acquire()
    SYNC_RUNNING,        \* _SYNC_RUNNING
    SYNC_RUNNING_SINCE,  \* _SYNC_RUNNING_SINCE
    LAST_TRIGGER,        \* _LAST_TRIGGER
    LAST_ERROR,          \* _LAST_ERROR
    LAST_STATS,          \* _LAST_STATS
    MANUAL_TASK,         \* _MANUAL_TASK
    taskResult,          \* [Tasks -> result of the finished asyncio.Task]
    callers,             \* [Callers -> the trigger_manual_sync call of that caller]
    local,               \* [Tasks -> locals of sync_postis_once in that task]
    store,               \* committed rows of the shipments table, by awb
    orphan,              \* worker thread left running by a cancelled to_thread await
    clock,               \* datetime.now(): one tick per run start
    cfg,                 \* PostisSyncConfig and the database dialect
    remote,              \* identifiers the gateway's list endpoint returns
    cancelledAt,         \* position at which the loop task received CancelledError
    hist,                \* history: what the completed runs returned or raised
    ship,                \* the shipments row of one awb, column by column (SpecUpsert)
    lastShipData,        \* the ship_data of the latest upsert_shipment_and_events call
    nUpserts,            \* calls of upsert_shipment_and_events so far
    cl,                  \* the PostisClient call in progress (SpecClient)
    token,               \* PostisClient.token is set
    nCalls,              \* detail fetches started in the run
    prev,                \* the latest request answered by the gateway
    unsupCall,           \* the detail fetch in which the resolve endpoint answered 405/501
    scoreIn,             \* two payloads handed to _score_payload (SpecScore)
    scoreOut,            \* their scores, in the order computed
    listIn,              \* the pages the list endpoint holds (SpecList)
    lst,                 \* _fetch_all_shipments_v3: page counter, result, pages requested
    chgIn,               \* arguments and database rows of _db_select_changed_awbs
    chgOut,              \* what that call computed (SpecChanges)
    syncIn,              \* the awb fields of the list items, in list order (SpecSync)
    sync,                \* the shipments rows and the change sets of the latest runs
    creds,               \* p_client.username and p_client.password are both set
    req,                 \* the latest POST /postis/sync request and its response
    now,                 \* time.monotonic(), in ticks (SpecCadence)
    poll,                \* the locals of postis_poll_loop and its position
    guardOwner,          \* the task that holds _SYNC_LOCK: "none", "loop" or "manual"
    guardWaiter,         \* the task queued on _SYNC_LOCK
    manualAt,            \* the position of the manual task
    lastRun,             \* when the loop's latest completed run was called, began, ended
    table,               \* the committed shipments rows, by awb (SpecKeys)
    session,             \* the rows as the writer's open transaction sees them
    keyErrors,           \* the errors counter of the batch writer
    rawIn,               \* the raw identifier handed to the candidate builder
    candOut,             \* the candidate list it returned (SpecCandidates)
    normOut,             \* what normalize_shipment_identifier returned, call by call
    rec,                 \* ownership, location map and events of one shipments row (SpecRow)
    lastCall,            \* the ship_data of the latest upsert of that row
    callParity,          \* the number of upserts of that row so far, modulo 2
    mergeIn,             \* the two payloads handed to _merge_fill_blanks (SpecMerge)
    mergeOut             \* the payloads it returned, call by call

orchVars == <<pc, lockHolder, lockWaiters, SYNC_RUNNING, SYNC_RUNNING_SINCE, LAST_TRIGGER,
          LAST_ERROR, LAST_STATS, MANUAL_TASK, taskResult, callers, local, store, orphan,
          clock, cfg, remote, cancelledAt, hist>>
upsertVars == <<ship, lastShipData, nUpserts>>
clientVars == <<cl, token, nCalls, prev, unsupCall, scoreIn, scoreOut, listIn, lst>>
changeVars == <<chgIn, chgOut, syncIn, sync>>
endpointVars == <<creds, req>>
cadenceVars == <<now, poll, guardOwner, guardWaiter, manualAt, lastRun>>
identVars == <<table, session, keyErrors, rawIn, candOut, normOut>>
rowVars == <<rec, lastCall, callParity, mergeIn, mergeOut>>
vars == <<orchVars, upsertVars, clientVars, changeVars, endpointVars, cadenceVars, identVars,
          rowVars>>

\* ----------------------------------------------------------------- helpers
Min(S) == CHOOSE x \in S : \A y \in S : x <= y

RECURSIVE SetToSeq(_)
SetToSeq(S) == IF S = {} THEN <<>> ELSE <<Min(S)>> \o SetToSeq(S \ {Min(S)})

Range(s) == {s[i] : i \in 1 .. Len(s)}

RemoveFromSeq(s, x) == SelectSeq(s, LAMBDA y : y # x)

\* The locals of one execution of sync_postis_once.
EmptyLocal ==
    [started_at |-> 0, by_awb |-> {}, list_items |-> 0, changed |-> <<>>, new_awbs |-> 0,
     pending |-> <<>>, inflight |-> {}, attempted |-> {}, details |-> <<>>, fetch_errors |-> 0,
     upserted_list |-> 0, upsert_errors_list |-> 0, listDone |-> FALSE, detailBegun |-> FALSE]

\* PostisSyncStats as built at the two return statements of sync_postis_once.
MakeStatsMutant(l, changedN, fetched, fetchErr, upDet, upDetErr) ==
    [started_at |-> l.started_at, list_items |-> l.list_items,
     unique_awbs |-> Cardinality(l.by_awb), new_awbs |-> l.new_awbs,
     changed_awbs |-> changedN, fetched_details |-> changedN,
     upserted_list |-> l.upserted_list, upserted_details |-> upDet,
     fetch_errors |-> fetchErr, upsert_errors_list |-> l.upsert_errors_list,
     upsert_errors_details |-> upDetErr]
MakeStats(l, changedN, fetched, fetchErr, upDet, upDetErr) ==
    [started_at |-> l.started_at, list_items |-> l.list_items,
     unique_awbs |-> Cardinality(l.by_awb), new_awbs |-> l.new_awbs,
     changed_awbs |-> changedN, fetched_details |-> fetched,
     upserted_list |-> l.upserted_list, upserted_details |-> upDet,
     fetch_errors |-> fetchErr, upsert_errors_list |-> l.upsert_errors_list,
     upsert_errors_details |-> upDetErr]

\* get_sync_status()
get_sync_status ==
    [running |-> SYNC_RUNNING, running_since |-> SYNC_RUNNING_SINCE,
     last_trigger |-> LAST_TRIGGER, last_error |-> LAST_ERROR, last_stats |-> LAST_STATS]

TriggerOf(t) == IF t = Loop THEN "auto" ELSE "manual"

\* asyncio.Lock.acquire() takes the lock at once only when it is unlocked and no
\* waiter is queued (a woken waiter that has not run yet keeps its place).
LockFreeMutant == TRUE
LockFree == lockHolder = NoTask /\ lockWaiters = <<>>

\* task.done() of _MANUAL_TASK
TaskDone(t) == pc[t] = "done"

ManualPendingMutant == FALSE
ManualPending == MANUAL_TASK # NoTask /\ ~TaskDone(MANUAL_TASK)

\* ------------------------------------------------------ store and batches
\* A row of the shipments table, as far as the orchestrator depends on it:
\* "absent", "list" (row without raw_data) or "detail" (row with raw_data).
\* upsert_shipment_and_events writes raw_data only when store_raw_data is set.
UpsertRow(row, storeRaw) ==
    IF storeRaw THEN "detail" ELSE IF row = "absent" THEN "list" ELSE row

\* ensure_shipments_schema ends with db.commit() on postgresql; on sqlite it commits
\* only after adding a missing column, which no longer happens once the batch's own
\* call at its start has added them.
EnsureSchemaCommits(dialect) == dialect = "postgresql"

\* The for-loop of _db_apply_postis_payloads / _db_apply_postis_list_payloads from item i
\* on. acc.committed is the database, acc.session what the open transaction sees.
RECURSIVE ApplyFrom(_, _, _, _, _, _, _)
ApplyFrom(payloads, i, fails, storeRaw, commitEvery, dialect, acc) ==
    IF i > Len(payloads) THEN acc
    ELSE LET a == payloads[i]
             \* upsert_shipment_and_events starts with ensure_shipments_schema(db)
             base == IF EnsureSchemaCommits(dialect) THEN acc.session ELSE acc.committed
             next ==
               IF a \in fails
               THEN \* except Exception: errors += 1; db.rollback()
                    [committed |-> base, session |-> base,
                     upserted |-> acc.upserted, errors |-> acc.errors + 1]
               ELSE LET ses == [acc.session EXCEPT ![a] = UpsertRow(@, storeRaw)]
                    IN [committed |-> IF i % commitEvery = 0 THEN ses ELSE base,
                        session |-> ses,
                        upserted |-> acc.upserted + 1, errors |-> acc.errors]
         IN ApplyFrom(payloads, i + 1, fails, storeRaw, commitEvery, dialect, next)

\* One whole batch: (upserted, errors) and the database after the final db.commit().
ApplyBatchAbortMutant(payloads, fails, storeRaw, commitEvery, dialect, db) ==
    LET firstBad == IF \E i \in 1 .. Len(payloads) : payloads[i] \in fails
                    THEN Min({i \in 1 .. Len(payloads) : payloads[i] \in fails})
                    ELSE Len(payloads) + 1
        r == ApplyFrom(SubSeq(payloads, 1, firstBad - 1), 1, {}, storeRaw, commitEvery, dialect,
                       [committed |-> db, session |-> db, upserted |-> 0, errors |-> 0])
    IN [db |-> r.session, upserted |-> r.upserted,
        errors |-> IF firstBad <= Len(payloads) THEN 1 ELSE 0]
ApplyBatch(payloads, fails, storeRaw, commitEvery, dialect, db) ==
    IF payloads = <<>> THEN [db |-> db, upserted |-> 0, errors |-> 0]
    ELSE LET r == ApplyFrom(payloads, 1, fails, storeRaw, commitEvery, dialect,
                            [committed |-> db, session |-> db, upserted |-> 0, errors |-> 0])
         IN [db |-> r.session, upserted |-> r.upserted, errors |-> r.errors]

\* _db_select_changed_awbs: identifiers without a row are new; rows without raw_data
\* are changed when include_missing_raw is set. The remote metadata (status, status
\* date, processing status) is constant in these specifications and every list-level
\* upsert stores it, so the comparisons of lines 315-334 select nothing here.
RECURSIVE TakeLargest(_, _)
TakeLargest(S, n) ==
    IF n = 0 \/ S = {} THEN <<>>
    ELSE LET m == CHOOSE x \in S : \A y \in S : y <= x
         IN <<m>> \o TakeLargest(S \ {m}, n - 1)

SelectChanged(remote_state, db, max_awbs_per_run, include_missing_raw) ==
    LET isNew == {a \in remote_state : db[a] = "absent"}
        missing_raw == IF include_missing_raw THEN {a \in remote_state : db[a] = "list"} ELSE {}
        all == isNew \cup missing_raw
        changed == IF max_awbs_per_run # NoCap /\ Cardinality(all) > max_awbs_per_run
                   THEN TakeLargest(all, max_awbs_per_run)
                   ELSE SetToSeq(all)
    IN [changed |-> changed, new_count |-> Cardinality(isNew)]

\* ------------------------------------------------------------ single flight
\* run_sync_guarded from the moment the lock is taken up to the first await of
\* sync_postis_once (the first list page): lines 201-205 and 467-507.
GuardEnter(t) ==
    /\ clock < MaxRuns
    /\ lockHolder' = t
    /\ SYNC_RUNNING' = TRUE
    /\ SYNC_RUNNING_SINCE' = Some(clock + 1)
    /\ LAST_TRIGGER' = TriggerOf(t)
    /\ LAST_ERROR' = None
    /\ clock' = clock + 1
    /\ pc' = [pc EXCEPT ![t] = "listFetch"]
    /\ local' = [local EXCEPT ![t] = [EmptyLocal EXCEPT !.started_at = clock + 1]]
    /\ hist' = [hist EXCEPT !.outcome = "running"]

\* `client.username and client.password` (line 489)
ConfiguredMutant == TRUE
Configured == creds

\* The PostisSyncStats returned at lines 492-505.
ZeroStats(started_at) ==
    MakeStats([EmptyLocal EXCEPT !.started_at = started_at], 0, 0, 0, 0, 0)

\* run_sync_guarded when the credentials are missing: sync_postis_once returns at line
\* 492 before its first await, so the lock is taken, the flags are set and cleared and
\* the lock is released (lines 201-216) without the task being suspended.
RunUnconfigured(t) ==
    /\ clock < MaxRuns
    /\ clock' = clock + 1
    /\ LAST_TRIGGER' = TriggerOf(t)
    /\ LAST_ERROR' = None
    /\ LAST_STATS' = Some(ZeroStats(clock + 1))
    /\ hist' = [hist EXCEPT !.stats = Some(ZeroStats(clock + 1)), !.outcome = "ok"]
    /\ pc' = [pc EXCEPT ![t] = IF t = Loop THEN "sleep" ELSE "done"]
    /\ taskResult' = IF t = Loop THEN taskResult
                     ELSE [taskResult EXCEPT ![t] = [kind |-> "stats",
                                                     stats |-> ZeroStats(clock + 1)]]
    /\ UNCHANGED <<lockHolder, SYNC_RUNNING, SYNC_RUNNING_SINCE, local>>

\* A task reaches `async with _SYNC_LOCK`: it enters, or queues behind the holder.
EnterOrQueue(t) ==
    IF LockFree
    THEN IF Configured
         THEN /\ GuardEnter(t)
              /\ UNCHANGED <<lockWaiters, LAST_STATS, taskResult>>
         ELSE /\ RunUnconfigured(t)
              /\ UNCHANGED lockWaiters
    ELSE /\ lockWaiters' = Append(lockWaiters, t)
         /\ pc' = [pc EXCEPT ![t] = "waitlock"]
         /\ UNCHANGED <<lockHolder, SYNC_RUNNING, SYNC_RUNNING_SINCE, LAST_TRIGGER,
                        LAST_ERROR, LAST_STATS, taskResult, clock, local, hist>>

\* The first waiter is woken by release() and takes the lock when it next runs.
LockWake(t) ==
    /\ pc[t] = "waitlock"
    /\ lockHolder = NoTask
    /\ lockWaiters # <<>> /\ Head(lockWaiters) = t
    /\ GuardEnter(t)
    /\ lockWaiters' = Tail(lockWaiters)
    /\ UNCHANGED <<upsertVars, clientVars, changeVars, rowVars, identVars, cadenceVars, endpointVars, LAST_STATS, MANUAL_TASK, taskResult, callers, store, orphan, cfg, remote,
                   cancelledAt>>

\* What run_sync_guarded stores when sync_postis_once returns or raises (lines 209-213).
StatsAfter(res) == IF res.kind = "stats" THEN Some(res.stats) ELSE LAST_STATS
ErrorAfterKeepMutant(res) == LAST_ERROR
ErrorAfter(res) == IF res.kind = "error" THEN res.msg ELSE LAST_ERROR

\* The finally block (lines 214-216) runs whether the run returned or raised.
RunningAfterExitMutant(res) == res.kind = "error"
RunningAfterExit(res) == FALSE

HistAfter(res) ==
    IF res.kind = "stats"
    THEN [hist EXCEPT !.stats = Some(res.stats), !.outcome = "ok"]
    ELSE [hist EXCEPT !.error = res.msg, !.outcome = "failed"]

\* The end of a run in task t: the finally block clears the flags and the lock is
\* released (lines 209-216). A manual task is then done. The loop task computes the next
\* start (line 628): it sleeps, or, when the run overran the interval (sleep_s <= 0,
\* `again`), calls run_sync_guarded again without suspending.
Finish(t, res, again) ==
    /\ again => (t = Loop /\ clock < MaxRuns)
    /\ LAST_STATS' = StatsAfter(res)
    /\ IF again /\ lockWaiters = <<>>
       THEN /\ lockHolder' = t
            /\ SYNC_RUNNING' = TRUE
            /\ SYNC_RUNNING_SINCE' = Some(clock + 1)
            /\ LAST_TRIGGER' = TriggerOf(t)
            /\ LAST_ERROR' = None
            /\ clock' = clock + 1
            /\ pc' = [pc EXCEPT ![t] = "listFetch"]
            /\ local' = [local EXCEPT ![t] = [EmptyLocal EXCEPT !.started_at = clock + 1]]
            /\ hist' = [HistAfter(res) EXCEPT !.outcome = "running"]
            /\ UNCHANGED <<lockWaiters, taskResult>>
       ELSE /\ lockHolder' = NoTask
            /\ SYNC_RUNNING' = RunningAfterExit(res)
            /\ SYNC_RUNNING_SINCE' = Nothing
            /\ LAST_ERROR' = ErrorAfter(res)
            /\ local' = [local EXCEPT ![t] = EmptyLocal]
            /\ hist' = HistAfter(res)
            /\ lockWaiters' = IF again THEN Append(lockWaiters, t) ELSE lockWaiters
            /\ pc' = [pc EXCEPT ![t] = IF again THEN "waitlock"
                                       ELSE IF t = Loop THEN "sleep" ELSE "done"]
            /\ taskResult' = IF t = Loop THEN taskResult ELSE [taskResult EXCEPT ![t] = res]
            /\ UNCHANGED <<LAST_TRIGGER, clock>>

Agains(t) == IF t = Loop THEN BOOLEAN ELSE {FALSE}

\* --------------------------------------------------------------- one run
\* _fetch_all_shipments_v3 returns: get_shipments answers a failed request with [],
\* so the list is the remote list or empty.
ListFetchDone(t, items) ==
    /\ pc[t] = "listFetch"
    /\ pc' = [pc EXCEPT ![t] = "select"]
    /\ local' = [local EXCEPT ![t].by_awb = items, ![t].list_items = Cardinality(items)]
    /\ UNCHANGED <<upsertVars, clientVars, changeVars, rowVars, identVars, cadenceVars, endpointVars, lockHolder, lockWaiters, SYNC_RUNNING, SYNC_RUNNING_SINCE, LAST_TRIGGER,
                   LAST_ERROR, LAST_STATS, MANUAL_TASK, taskResult, callers, store, orphan,
                   clock, cfg, remote, cancelledAt, hist>>

\* get_token()/login() raises outside get_shipments' try block: the run raises.
ListFetchRaise(t, again) ==
    /\ pc[t] = "listFetch"
    /\ Finish(t, [kind |-> "error", msg |-> "Postis authentication failed"], again)
    /\ UNCHANGED <<upsertVars, clientVars, changeVars, rowVars, identVars, cadenceVars, endpointVars, MANUAL_TASK, callers, store, orphan, cfg, remote, cancelledAt>>

\* sync_postis_once applies the list payloads right after change detection (line 538),
\* before any detail is fetched.
PhaseAfterSelectMutant == "detailFetch"
PhaseAfterSelect == "listUpsert"

\* asyncio.to_thread(_db_select_changed_awbs, ...) returns.
SelectDone(t) ==
    /\ pc[t] = "select"
    /\ LET sel == SelectChanged(local[t].by_awb, store, cfg.max_awbs_per_run,
                                cfg.include_missing_raw)
       IN local' = [local EXCEPT ![t].changed = sel.changed, ![t].new_awbs = sel.new_count,
                                 ![t].pending = sel.changed]
    /\ pc' = [pc EXCEPT ![t] = PhaseAfterSelect]
    /\ UNCHANGED <<upsertVars, clientVars, changeVars, rowVars, identVars, cadenceVars, endpointVars, lockHolder, lockWaiters, SYNC_RUNNING, SYNC_RUNNING_SINCE, LAST_TRIGGER,
                   LAST_ERROR, LAST_STATS, MANUAL_TASK, taskResult, callers, store, orphan,
                   clock, cfg, remote, cancelledAt, hist>>

\* The database query of _db_select_changed_awbs raises: the run raises.
SelectRaise(t, again) ==
    /\ pc[t] = "select"
    /\ Finish(t, [kind |-> "error", msg |-> "database error"], again)
    /\ UNCHANGED <<upsertVars, clientVars, changeVars, rowVars, identVars, cadenceVars, endpointVars, MANUAL_TASK, callers, store, orphan, cfg, remote, cancelledAt>>

\* The phase that follows the list-level batch (lines 543 and 560).
AfterListUpsertMutant(changed) == "detailFetch"
AfterListUpsert(changed) == IF changed = <<>> THEN "return" ELSE "detailFetch"

\* asyncio.to_thread(_db_apply_postis_list_payloads, list(by_awb.values())) returns;
\* `fails` are the items whose upsert raises.
ListUpsertDone(t, fails, again) ==
    /\ pc[t] = "listUpsert"
    /\ fails \subseteq local[t].by_awb
    /\ LET l == local[t]
           r == ApplyBatch(SetToSeq(l.by_awb), fails, FALSE, CommitEveryList, cfg.dialect, store)
           l2 == [l EXCEPT !.upserted_list = r.upserted, !.upsert_errors_list = r.errors,
                           !.listDone = TRUE]
           to == AfterListUpsert(l.changed)
       IN /\ store' = r.db
          /\ IF to = "return"
             THEN Finish(t, [kind |-> "stats", stats |-> MakeStats(l2, 0, 0, 0, 0, 0)], again)
             ELSE /\ again = FALSE
                  /\ pc' = [pc EXCEPT ![t] = to]
                  /\ local' = [local EXCEPT ![t] =
                                 [l2 EXCEPT !.pending = l.changed]]
                  /\ UNCHANGED <<lockHolder, lockWaiters, SYNC_RUNNING, SYNC_RUNNING_SINCE,
                                 LAST_TRIGGER, LAST_ERROR, LAST_STATS, taskResult, clock, hist>>
    /\ UNCHANGED <<upsertVars, clientVars, changeVars, rowVars, identVars, cadenceVars, endpointVars, MANUAL_TASK, callers, orphan, cfg, remote, cancelledAt>>

\* _fetch_details_by_awb: gather() starts fetch_one for every changed awb, in order;
\* the semaphore lets at most max(1, concurrency) of them past `async with sem`.
SemWidthMutant(concurrency) == concurrency + 1
SemWidth(concurrency) == IF concurrency >= 1 THEN concurrency ELSE 1

FetchStart(t) ==
    /\ pc[t] = "detailFetch"
    /\ local[t].pending # <<>>
    /\ Cardinality(local[t].inflight) < SemWidth(cfg.concurrency)
    /\ LET a == Head(local[t].pending)
       IN local' = [local EXCEPT ![t].pending = Tail(@), ![t].inflight = @ \cup {a},
                                 ![t].attempted = @ \cup {a}]
    /\ UNCHANGED <<upsertVars, clientVars, changeVars, rowVars, identVars, cadenceVars, endpointVars, pc, lockHolder, lockWaiters, SYNC_RUNNING, SYNC_RUNNING_SINCE, LAST_TRIGGER,
                   LAST_ERROR, LAST_STATS, MANUAL_TASK, taskResult, callers, store, orphan,
                   clock, cfg, remote, cancelledAt, hist>>

\* get_shipment_tracking_by_awb_or_client_order_id returned a non-empty dict.
FetchOk(t, a) ==
    /\ pc[t] = "detailFetch"
    /\ a \in local[t].inflight
    /\ local' = [local EXCEPT ![t].inflight = @ \ {a}, ![t].details = Append(@, a)]
    /\ UNCHANGED <<upsertVars, clientVars, changeVars, rowVars, identVars, cadenceVars, endpointVars, pc, lockHolder, lockWaiters, SYNC_RUNNING, SYNC_RUNNING_SINCE, LAST_TRIGGER,
                   LAST_ERROR, LAST_STATS, MANUAL_TASK, taskResult, callers, store, orphan,
                   clock, cfg, remote, cancelledAt, hist>>

\* It returned {} or raised: errors += 1 (lines 458-461).
FetchFail(t, a) ==
    /\ pc[t] = "detailFetch"
    /\ a \in local[t].inflight
    /\ local' = [local EXCEPT ![t].inflight = @ \ {a}, ![t].fetch_errors = @ + 1]
    /\ UNCHANGED <<upsertVars, clientVars, changeVars, rowVars, identVars, cadenceVars, endpointVars, pc, lockHolder, lockWaiters, SYNC_RUNNING, SYNC_RUNNING_SINCE, LAST_TRIGGER,
                   LAST_ERROR, LAST_STATS, MANUAL_TASK, taskResult, callers, store, orphan,
                   clock, cfg, remote, cancelledAt, hist>>

\* gather() returns once every fetch_one has ended; the details go to the writer thread.
DetailFetchDone(t) ==
    /\ pc[t] = "detailFetch"
    /\ local[t].pending = <<>> /\ local[t].inflight = {}
    /\ pc' = [pc EXCEPT ![t] = "detailUpsert"]
    /\ local' = [local EXCEPT ![t].detailBegun = TRUE]
    /\ UNCHANGED <<upsertVars, clientVars, changeVars, rowVars, identVars, cadenceVars, endpointVars, lockHolder, lockWaiters, SYNC_RUNNING, SYNC_RUNNING_SINCE, LAST_TRIGGER,
                   LAST_ERROR, LAST_STATS, MANUAL_TASK, taskResult, callers, store, orphan,
                   clock, cfg, remote, cancelledAt, hist>>

\* asyncio.to_thread(_db_apply_postis_payloads, details) returns and the run returns its
\* stats (lines 563-580).
DetailUpsertDone(t, fails, again) ==
    /\ pc[t] = "detailUpsert"
    /\ fails \subseteq Range(local[t].details)
    /\ LET l == local[t]
           r == ApplyBatch(l.details, fails, TRUE, CommitEveryDetails, cfg.dialect, store)
       IN /\ store' = r.db
          /\ Finish(t, [kind |-> "stats",
                        stats |-> MakeStats(l, Len(l.changed), Len(l.details), l.fetch_errors,
                                            r.upserted, r.errors)], again)
    /\ UNCHANGED <<upsertVars, clientVars, changeVars, rowVars, identVars, cadenceVars, endpointVars, MANUAL_TASK, callers, orphan, cfg, remote, cancelledAt>>

\* ------------------------------------------------------------ scheduled loop
\* postis_poll_loop before its first run: the startup jitter, then the sleep until
\* next_run when run_immediately is off.
LoopStartSleep(to) ==
    /\ pc[Loop] = "start"
    /\ to \in {"jitter", "sleep"}
    /\ pc' = [pc EXCEPT ![Loop] = to]
    /\ UNCHANGED <<upsertVars, clientVars, changeVars, rowVars, identVars, cadenceVars, endpointVars, lockHolder, lockWaiters, SYNC_RUNNING, SYNC_RUNNING_SINCE, LAST_TRIGGER,
                   LAST_ERROR, LAST_STATS, MANUAL_TASK, taskResult, callers, local, store,
                   orphan, clock, cfg, remote, cancelledAt, hist>>

LoopJitterDone ==
    /\ pc[Loop] = "jitter"
    /\ pc' = [pc EXCEPT ![Loop] = "sleep"]
    /\ UNCHANGED <<upsertVars, clientVars, changeVars, rowVars, identVars, cadenceVars, endpointVars, lockHolder, lockWaiters, SYNC_RUNNING, SYNC_RUNNING_SINCE, LAST_TRIGGER,
                   LAST_ERROR, LAST_STATS, MANUAL_TASK, taskResult, callers, local, store,
                   orphan, clock, cfg, remote, cancelledAt, hist>>

\* The loop reaches run_sync_guarded(client, config=cfg, trigger="auto") (line 605).
LoopWake ==
    /\ pc[Loop] \in {"start", "jitter", "sleep"}
    /\ EnterOrQueue(Loop)
    /\ UNCHANGED <<upsertVars, clientVars, changeVars, rowVars, identVars, cadenceVars, endpointVars, MANUAL_TASK, callers, store, orphan, cfg, remote, cancelledAt>>

\* shutdown_event: task.cancel(); CancelledError is raised in the loop task at the
\* await it is suspended in. Inside a run it passes `except Exception` (line 211), the
\* finally block and the lock's __aexit__ run, and line 622 re-raises it. A worker
\* thread started by to_thread is not stopped by it.
RunningAfterCancelMutant == SYNC_RUNNING
RunningAfterCancel == FALSE

Cancel ==
    /\ pc[Loop] \in {"start", "jitter", "sleep", "waitlock"} \cup RunPcs
    /\ pc' = [pc EXCEPT ![Loop] = "cancelled"]
    /\ cancelledAt' = pc[Loop]
    /\ lockWaiters' = RemoveFromSeq(lockWaiters, Loop)
    /\ IF pc[Loop] \in RunPcs
       THEN /\ lockHolder' = NoTask
            /\ SYNC_RUNNING' = RunningAfterCancel
            /\ SYNC_RUNNING_SINCE' = Nothing
            /\ hist' = [hist EXCEPT !.outcome = "cancelled", !.cancelClock = clock]
            /\ local' = [local EXCEPT ![Loop] = EmptyLocal]
            /\ orphan' = IF pc[Loop] = "listUpsert"
                         THEN Some([payloads |-> SetToSeq(local[Loop].by_awb),
                                    storeRaw |-> FALSE, commitEvery |-> CommitEveryList])
                         ELSE IF pc[Loop] = "detailUpsert"
                         THEN Some([payloads |-> local[Loop].details, storeRaw |-> TRUE,
                                    commitEvery |-> CommitEveryDetails])
                         ELSE orphan
       ELSE /\ hist' = [hist EXCEPT !.cancelClock = clock]
            /\ UNCHANGED <<lockHolder, SYNC_RUNNING, SYNC_RUNNING_SINCE, local, orphan>>
    /\ UNCHANGED <<upsertVars, clientVars, changeVars, rowVars, identVars, cadenceVars, endpointVars, LAST_TRIGGER, LAST_ERROR, LAST_STATS, MANUAL_TASK, taskResult, callers,
                   store, clock, cfg, remote>>

\* The worker thread of a cancelled run finishes its batch.
OrphanDone(fails) ==
    /\ orphan # Nothing
    /\ fails \subseteq Range(orphan[1].payloads)
    /\ store' = ApplyBatch(orphan[1].payloads, fails, orphan[1].storeRaw,
                           orphan[1].commitEvery, cfg.dialect, store).db
    /\ orphan' = Nothing
    /\ UNCHANGED <<upsertVars, clientVars, changeVars, rowVars, identVars, cadenceVars, endpointVars, pc, lockHolder, lockWaiters, SYNC_RUNNING, SYNC_RUNNING_SINCE, LAST_TRIGGER,
                   LAST_ERROR, LAST_STATS, MANUAL_TASK, taskResult, callers, local, clock,
                   cfg, remote, cancelledAt, hist>>

\* ------------------------------------------------------------ manual trigger
IdleCall ==
    [state |-> "idle", wait |-> FALSE, started |-> FALSE, task |-> NoTask, stats |-> Nothing]

\* trigger_manual_sync(client, config, wait) up to its return or its `await task`.
trigger_manual_sync(c, wait) ==
    /\ callers[c].state = "idle"
    /\ IF ManualPending
       THEN /\ callers' = [callers EXCEPT ![c] =
                             [state |-> IF wait THEN "waiting" ELSE "returned", wait |-> wait,
                              started |-> FALSE, task |-> IF wait THEN MANUAL_TASK ELSE NoTask,
                              stats |-> Nothing]]
            /\ UNCHANGED <<pc, MANUAL_TASK>>
       ELSE /\ pc[c] = "none"
            /\ pc' = [pc EXCEPT ![c] = "ready"]      \* asyncio.create_task(_run())
            /\ MANUAL_TASK' = c
            /\ callers' = [callers EXCEPT ![c] =
                             [state |-> IF wait THEN "waiting" ELSE "returned", wait |-> wait,
                              started |-> TRUE, task |-> IF wait THEN c ELSE NoTask,
                              stats |-> Nothing]]
    /\ UNCHANGED <<upsertVars, clientVars, changeVars, rowVars, identVars, cadenceVars, creds, lockHolder, lockWaiters, SYNC_RUNNING, SYNC_RUNNING_SINCE, LAST_TRIGGER,
                   LAST_ERROR, LAST_STATS, taskResult, local, store, orphan, clock, cfg,
                   remote, cancelledAt, hist>>

\* The fields of PostisSyncConfig (lines 109-118).
ConfigFields ==
    {"enabled", "interval_seconds", "page_size", "concurrency", "max_awbs_per_run",
     "include_missing_raw", "startup_jitter_seconds", "run_immediately"}

\* dataclasses.replace(cfg, **changes): it builds PostisSyncConfig(**fields), which
\* raises TypeError (Nothing) on a keyword that is not a field.
Replace(config, changes) ==
    IF DOMAIN changes \subseteq ConfigFields
    THEN Some([f \in DOMAIN config |-> IF f \in DOMAIN changes THEN changes[f] ELSE config[f]])
    ELSE Nothing

DefaultFieldsLimit == 5000

\* Lines 2806-2835: the configuration the endpoint hands to trigger_manual_sync, or
\* Nothing when building it raises. missing_fields_limit is Nothing or Some(n).
TriggerConfig(config, mode, missing_fields_limit) ==
    LET given == missing_fields_limit # Nothing /\ missing_fields_limit[1] > 0
    IN IF mode \in {"full", "backfill", "deep"}
       THEN Replace(config,
                    [use_v2_list |-> TRUE, enrich_missing_fields |-> TRUE,
                     missing_fields_limit |-> IF given THEN missing_fields_limit[1]
                                              ELSE DefaultFieldsLimit,
                     max_awbs_per_run |-> config.max_awbs_per_run])
       ELSE IF given
       THEN Replace(config, [missing_fields_limit |-> missing_fields_limit[1]])
       ELSE Some(config)

NoRequest ==
    [http |-> None, mode |-> None, limit |-> Nothing, config |-> Nothing]

\* POST /postis/sync: 400 without credentials, 500 when building the configuration
\* raises, else ("200") the call of trigger_manual_sync, whose outcome callers[c] holds:
\* the answer is {started, **get_sync_status()}, after the task's end when wait is set.
postis_sync_trigger(c, wait, mode, missing_fields_limit) ==
    /\ callers[c].state = "idle"
    /\ LET config == TriggerConfig(cfg, mode, missing_fields_limit)
           asked == [NoRequest EXCEPT !.mode = mode, !.limit = missing_fields_limit]
       IN IF ~creds
          THEN /\ req' = [asked EXCEPT !.http = "400"]
               /\ UNCHANGED <<orchVars, upsertVars, clientVars, changeVars, rowVars, identVars, cadenceVars, creds>>
          ELSE IF config = Nothing
          THEN /\ req' = [asked EXCEPT !.http = "500"]
               /\ UNCHANGED <<orchVars, upsertVars, clientVars, changeVars, rowVars, identVars, cadenceVars, creds>>
          ELSE /\ req' = [asked EXCEPT !.http = "200", !.config = config]
               /\ trigger_manual_sync(c, wait)

\* The task created by the trigger starts: _run() calls run_sync_guarded(trigger="manual").
ManualTaskStart(t) ==
    /\ t \in Callers
    /\ pc[t] = "ready"
    /\ EnterOrQueue(t)
    /\ UNCHANGED <<upsertVars, clientVars, changeVars, rowVars, identVars, cadenceVars, endpointVars, MANUAL_TASK, callers, store, orphan, cfg, remote, cancelledAt>>

\* `await task` of a waiting caller ends: it returns the task's stats or re-raises.
AwaitDone(c) ==
    /\ callers[c].state = "waiting"
    /\ TaskDone(callers[c].task)
    /\ LET res == taskResult[callers[c].task]
       IN callers' = [callers EXCEPT ![c].state = IF res.kind = "stats" THEN "returned" ELSE "raised",
                                     ![c].stats = IF res.kind = "stats" THEN Some(res.stats) ELSE Nothing]
    /\ UNCHANGED <<upsertVars, clientVars, changeVars, rowVars, identVars, cadenceVars, endpointVars, pc, lockHolder, lockWaiters, SYNC_RUNNING, SYNC_RUNNING_SINCE, LAST_TRIGGER,
                   LAST_ERROR, LAST_STATS, MANUAL_TASK, taskResult, local, store, orphan,
                   clock, cfg, remote, cancelledAt, hist>>

\* ------------------------------------------------------------ identifiers
\* A string is a sequence of characters, each a string of length one.
Digits == {"0", "1", "2", "3", "4", "5", "6", "7", "8", "9"}
Letters == {"A", "B"}

\* str.upper() on one character
UpperChar(ch) == IF ch = "a" THEN "A" ELSE IF ch = "b" THEN "B" ELSE ch
Upper(text) == [i \in 1 .. Len(text) |-> UpperChar(text[i])]

IsSpace(ch) == ch = " "
IsAlnum(ch) == ch \in Letters \cup Digits

\* str.strip()
RECURSIVE StripLeft(_)
StripLeft(text) ==
    IF text # <<>> /\ IsSpace(Head(text)) THEN StripLeft(Tail(text)) ELSE text
RECURSIVE StripRight(_)
StripRight(text) ==
    IF text # <<>> /\ IsSpace(text[Len(text)])
    THEN StripRight(SubSeq(text, 1, Len(text) - 1))
    ELSE text
StripText(text) == StripLeft(StripRight(text))

\* normalize_shipment_identifier (postis_client.py): strip, upper, then drop whitespace
\* and every character outside [A-Z0-9].
normalize_shipment_identifierMutant(value) == StripText(value)
normalize_shipment_identifier(value) == SelectSeq(Upper(StripText(value)), IsAlnum)

\* The parcel-suffix test of _get_awb and of the candidate builder.
HasParcelSuffix(norm) ==
    /\ Len(norm) >= SuffixMinLen
    /\ \E i \in 1 .. Len(norm) : norm[i] \in Letters
    /\ \A i \in (Len(norm) - SuffixLen + 1) .. Len(norm) : norm[i] \in Digits
    /\ \E i \in (Len(norm) - SuffixLen + 1) .. Len(norm) : norm[i] # "0"

\* _get_awb (shipments_service.py): the key of the row; <<>> stands for None.
get_awb(awb) ==
    LET norm == SelectSeq(Upper(StripText(awb)), IsAlnum)
        core == SubSeq(norm, 1, Len(norm) - SuffixLen)
    IN IF HasParcelSuffix(norm) /\ Len(core) >= CoreMinLen THEN core ELSE norm

\* db.query(Shipment).filter(Shipment.awb == awb).first(): the index of the row, or 0.
FindRowMutant(rows, awb) == 0
FindRow(rows, awb) ==
    IF \E i \in 1 .. Len(rows) : rows[i].awb = awb
    THEN Min({i \in 1 .. Len(rows) : rows[i].awb = awb})
    ELSE 0

\* build_upsert_payload, lines 614-616: `if not awb: raise ValueError("Missing AWB")`
MissingAwbMutant(awb) == FALSE
MissingAwb(awb) == awb = <<>>

\* One item of the for-loop of _db_apply_postis_payloads, as far as the key goes:
\* upsert_shipment_and_events runs ensure_shipments_schema, then build_upsert_payload
\* raises ValueError without a key (the writer counts an error and rolls back), else
\* the row of that key is updated or a row is added.
\* raw_data of the row after the upsert of ship_data: build_upsert_payload adds the key
\* raw_data only when store_raw_data is set (lines 793-796), so without it the writer
\* leaves the column as it is, and a new row has none. NoRaw stands for None.
NoRaw == <<>>
RawAfterMutant(old, ship_data, store_raw_data) == ship_data
RawAfter(old, ship_data, store_raw_data) == IF store_raw_data THEN ship_data ELSE old

UpsertKey(raw, store_raw_data) ==
    /\ Len(session) < MaxRows
    /\ LET awb == get_awb(raw)
           i == FindRow(session, awb)
           base == IF EnsureSchemaCommits(cfg.dialect) THEN session ELSE table
       IN IF MissingAwb(awb)
          THEN /\ keyErrors < MaxUpserts
               /\ keyErrors' = keyErrors + 1
               /\ table' = base
               /\ session' = base
          ELSE /\ table' = base
               /\ session' = IF i # 0
                             THEN [session EXCEPT ![i].raw = RawAfter(@, raw, store_raw_data)]
                             ELSE Append(session,
                                         [awb |-> awb,
                                          raw |-> RawAfter(NoRaw, raw, store_raw_data)])
               /\ UNCHANGED keyErrors
    /\ UNCHANGED <<orchVars, upsertVars, clientVars, changeVars, rowVars, endpointVars,
                   cadenceVars, rawIn, candOut, normOut>>

\* db.commit() of the batch writer
CommitRows ==
    /\ table # session
    /\ table' = session
    /\ UNCHANGED <<orchVars, upsertVars, clientVars, changeVars, rowVars, endpointVars,
                   cadenceVars, session, keyErrors, rawIn, candOut, normOut>>

\* db.rollback() of the batch writer after an item failed in the database
RollbackRows ==
    /\ table # session
    /\ keyErrors < MaxUpserts
    /\ keyErrors' = keyErrors + 1
    /\ session' = table
    /\ UNCHANGED <<orchVars, upsertVars, clientVars, changeVars, rowVars, endpointVars,
                   cadenceVars, table, rawIn, candOut, normOut>>

\* re.findall(r"[A-Z0-9]+", raw): the maximal runs of letters and digits, in order.
RECURSIVE Tokens(_, _)
Tokens(text, run) ==
    IF text = <<>> THEN (IF run = <<>> THEN <<>> ELSE <<run>>)
    ELSE IF IsAlnum(Head(text)) THEN Tokens(Tail(text), Append(run, Head(text)))
    ELSE (IF run = <<>> THEN <<>> ELSE <<run>>) \o Tokens(Tail(text), <<>>)

\* `if x not in xs: xs.append(x)`
AppendNew(xs, x) == IF \E i \in 1 .. Len(xs) : xs[i] = x THEN xs ELSE Append(xs, x)

\* Lines 35-40: the tokens of TokenMinLen characters or more, without repeats.
RECURSIVE LongTokens(_, _)
LongTokens(parts, candidates) ==
    IF parts = <<>> THEN candidates
    ELSE LET norm == normalize_shipment_identifier(Head(parts))
         IN LongTokens(Tail(parts),
                       IF Len(Head(parts)) < TokenMinLen \/ norm = <<>> THEN candidates
                       ELSE AppendNew(candidates, norm))

\* Lines 47-59: each candidate, followed by its core when it ends in a parcel suffix.
RECURSIVE WithCores(_, _)
WithCores(candidates, out) ==
    IF candidates = <<>> THEN out
    ELSE LET norm == Head(candidates)
             core == SubSeq(norm, 1, Len(norm) - SuffixLen)
             out1 == AppendNew(out, norm)
         IN WithCores(Tail(candidates),
                      IF HasParcelSuffix(norm) /\ Len(core) >= CoreMinLen
                      THEN AppendNew(out1, core) ELSE out1)

\* candidates_with_optional_parcel_suffix_stripped (postis_client.py, lines 20-62)
candidates_with_optional_parcel_suffix_stripped(value) ==
    LET raw == Upper(StripText(value))
        full_norm == normalize_shipment_identifier(raw)
        tokens == LongTokens(Tokens(raw, <<>>), <<>>)
        candidates == IF full_norm = <<>> THEN tokens ELSE AppendNew(tokens, full_norm)
        out == WithCores(candidates, <<>>)
    IN IF raw = <<>> THEN <<>>
       ELSE SubSeq(out, 1, IF Len(out) < MaxCandidates THEN Len(out) ELSE MaxCandidates)

\* normalize_shipment_identifier on the scanned text, and on its own result.
Normalize ==
    /\ normOut = <<>>
    /\ normOut' = <<normalize_shipment_identifier(rawIn)>>
    /\ UNCHANGED <<orchVars, upsertVars, clientVars, changeVars, rowVars, endpointVars,
                   cadenceVars, table, session, keyErrors, rawIn, candOut>>

NormalizeAgain ==
    /\ Len(normOut) = 1
    /\ normOut' = Append(normOut, normalize_shipment_identifier(normOut[1]))
    /\ UNCHANGED <<orchVars, upsertVars, clientVars, changeVars, rowVars, endpointVars,
                   cadenceVars, table, session, keyErrors, rawIn, candOut>>

BuildCandidates ==
    /\ candOut = Nothing
    /\ candOut' = Some(candidates_with_optional_parcel_suffix_stripped(rawIn))
    /\ UNCHANGED <<orchVars, upsertVars, clientVars, changeVars, rowVars, endpointVars,
                   cadenceVars, table, session, keyErrors, rawIn, normOut>>

\* Raw identifiers of list and detail payloads.
Core10 == <<"A", "B", "1", "2", "3", "4", "5", "6", "7", "8">>
Num10 == <<"1", "2", "3", "4", "5", "6", "7", "8", "9", "0">>
AwbInputs ==
    {<<>>, <<"-", "-">>, Core10,
     <<"a", "b", "-", "1", "2", "3", "4", " ", "5", "6", "7", "8">>,
     <<" ">> \o Core10 \o <<"0", "0", "1">>,
     Core10 \o <<"0", "0", "2">>,
     Core10 \o <<"0", "0", "0">>,
     Core10 \o <<"0", "0", "1", "0", "0", "2">>,
     Core10 \o <<"-", "0", "0", "1", "-", "0", "0", "1">>,
     Num10 \o <<"0", "0", "1">>,
     <<"A", "B", "1", "2", "3", "4", "5", "0", "0", "1">>}

\* ------------------------------------------------------- consecutive runs
\* sync_postis_once run after run against one remote list, identifier by identifier.
\* The list items carry the same awbStatusDate, status and processing status in every
\* run and every upsert stores them, so the comparisons of lines 315-334 select nothing;
\* a detail payload carries the identifier it was fetched for.
extract_awb(raw) == normalize_shipment_identifier(raw)

\* Remote lists: up to MaxItems items out of a plain AWB, the same AWB as printed on a
\* label, a parcel label of it and a numeric identifier.
SyncAwbs ==
    {Core10, <<"a", "b", "-", "1", "2", "3", "4", " ", "5", "6", "7", "8">>,
     Core10 \o <<"0", "0", "1">>, Num10 \o <<"0", "0", "1">>}
SyncInputs ==
    {s \in UNION {[1 .. n -> SyncAwbs] : n \in 1 .. MaxItems} :
        \A i, j \in 1 .. Len(s) : s[i] = s[j] => i = j}
SyncKeys == {extract_awb(x) : x \in SyncAwbs}

\* The three conversions of an identifier, tabulated over the identifiers that occur:
\* _extract_awb of a list item, _get_awb of a list item or detail payload, and the
\* normalisation of a stored awb in _db_select_changed_awbs (lines 277-279).
ExtractAwb == [x \in SyncAwbs |-> extract_awb(x)]
RowKey == [x \in SyncAwbs \cup SyncKeys |-> get_awb(x)]
StoredKey == [a \in {get_awb(x) : x \in SyncAwbs \cup SyncKeys} |->
                normalize_shipment_identifier(a)]


\* remote_state / by_awb of lines 512-523: the keys in list order, and for each key the
\* first item that has it.
RECURSIVE RemoteKeys(_)
RemoteKeys(items) ==
    IF items = <<>> THEN <<>>
    ELSE LET before == RemoteKeys(SubSeq(items, 1, Len(items) - 1))
             awb == ExtractAwb[items[Len(items)]]
         IN IF awb = <<>> THEN before ELSE AppendNew(before, awb)
ByAwbItems(items) ==
    LET first(k) == Min({i \in 1 .. Len(items) : ExtractAwb[items[i]] = k})
        keys == RemoteKeys(items)
    IN [j \in 1 .. Len(keys) |-> items[first(keys[j])]]

\* The order of Python strings of digits and upper-case letters: a > b.
CharOrder == <<"0", "1", "2", "3", "4", "5", "6", "7", "8", "9", "A", "B">>
CharRank(ch) == CHOOSE i \in 1 .. Len(CharOrder) : CharOrder[i] = ch
RECURSIVE StrGreater(_, _)
StrGreater(a, b) ==
    IF a = <<>> THEN FALSE
    ELSE IF b = <<>> THEN TRUE
    ELSE IF Head(a) = Head(b) THEN StrGreater(Tail(a), Tail(b))
    ELSE CharRank(Head(a)) > CharRank(Head(b))

\* changed.sort(..., reverse=True) of lines 338-345 with equal status dates
KeyAbove == [a \in SyncKeys, b \in SyncKeys |-> StrGreater(a, b)]
RECURSIVE SortedDesc(_)
SortedDesc(S) ==
    IF S = {} THEN <<>>
    ELSE LET m == CHOOSE x \in S : \A y \in S \ {x} : KeyAbove[x, y]
         IN <<m>> \o SortedDesc(S \ {m})

\* _db_select_changed_awbs on the rows: `all` is the list before the cap is applied.
SelectRows(keys, rows, max_awbs_per_run, include_missing_raw) ==
    LET existing == {StoredKey[r.awb] : r \in rows} \ {<<>>}
        missing_raw == IF include_missing_raw
                       THEN {StoredKey[r.awb] : r \in {q \in rows : ~q.raw}}
                       ELSE {}
        all == SelectSeq(keys, LAMBDA k : k \notin existing \/ k \in missing_raw)
    IN [all |-> all,
        changed |-> IF max_awbs_per_run # NoCap /\ Len(all) > max_awbs_per_run
                    THEN SubSeq(SortedDesc(Range(all)), 1, max_awbs_per_run)
                    ELSE all]

\* upsert_shipment_and_events on the rows: the row of key _get_awb(ship_data) is
\* updated or added; raw_data is written only when store_raw_data is set.
PutRow(rows, raw, storeRaw) ==
    LET awb == RowKey[raw]
    IN IF \E r \in rows : r.awb = awb
       THEN {IF r.awb = awb THEN [r EXCEPT !.raw = @ \/ storeRaw] ELSE r : r \in rows}
       ELSE rows \cup {[awb |-> awb, raw |-> storeRaw]}

\* The for-loop of the batch writers on the rows, as ApplyFrom.
RECURSIVE ApplyRowsFrom(_, _, _, _, _, _, _)
ApplyRowsFrom(payloads, i, fails, storeRaw, commitEvery, dialect, acc) ==
    IF i > Len(payloads) THEN acc.session
    ELSE LET base == IF EnsureSchemaCommits(dialect) THEN acc.session ELSE acc.committed
             ses == PutRow(acc.session, payloads[i], storeRaw)
             next == IF payloads[i] \in fails
                     THEN [committed |-> base, session |-> base]
                     ELSE [committed |-> IF i % commitEvery = 0 THEN ses ELSE base,
                           session |-> ses]
         IN ApplyRowsFrom(payloads, i + 1, fails, storeRaw, commitEvery, dialect, next)
ApplyRows(payloads, fails, storeRaw, commitEvery, dialect, rows) ==
    ApplyRowsFrom(payloads, 1, fails, storeRaw, commitEvery, dialect,
                  [committed |-> rows, session |-> rows])

\* No run yet. all is the change set of the latest run before the cap; runs holds, for
\* the latest two runs, the change set and whether the run met no error.
IdleSync == [rows |-> {}, all |-> {}, runs |-> <<>>]
LastTwo(s) == IF Len(s) > 2 THEN Tail(s) ELSE s

\* One whole run of sync_postis_once (lines 507-563): the detail fetches of `fetched`
\* return a payload, the upserts of listFails and detFails raise.
SyncOnce(fetched, listFails, detFails) ==
    /\ syncIn # <<>>
    /\ LET keys == RemoteKeys(syncIn)
           items == ByAwbItems(syncIn)
           sel == SelectRows(keys, sync.rows, cfg.max_awbs_per_run, cfg.include_missing_raw)
           afterList == ApplyRows(items, listFails, FALSE, CommitEveryList, cfg.dialect,
                                  sync.rows)
           details == SelectSeq(sel.changed, LAMBDA k : k \in fetched)
           afterDetails == ApplyRows(details, detFails, TRUE, CommitEveryDetails, cfg.dialect,
                                     afterList)
       IN /\ fetched \subseteq Range(sel.changed)
          /\ listFails \subseteq Range(items)
          /\ detFails \subseteq Range(details)
          /\ sync' = [rows |-> afterDetails,
                      all |-> Range(sel.all),
                      runs |-> LastTwo(Append(sync.runs,
                                 [changed |-> Range(sel.changed),
                                  clean |-> /\ fetched = Range(sel.changed)
                                            /\ listFails = {}
                                            /\ detFails = {}]))]
    /\ UNCHANGED <<orchVars, upsertVars, clientVars, endpointVars, cadenceVars, identVars,
                   rowVars, chgIn, chgOut, syncIn>>

\* The upserts that raise in one batch of a run: none or one.
AtMostOne(S) == {{}} \cup {{x} : x \in S}

\* The change set the next run computes.
NextChanged ==
    Range(SelectRows(RemoteKeys(syncIn), sync.rows, cfg.max_awbs_per_run,
                     cfg.include_missing_raw).changed)

\* A run in which the detail of k is fetched and every upsert succeeds.
SyncFetched(k) ==
    /\ k \in NextChanged
    /\ \E fetched \in SUBSET NextChanged : k \in fetched /\ SyncOnce(fetched, {}, {})

\* Scanned texts: every text of up to three characters over a space, a separator, a
\* letter and a digit; two, three and twelve long tokens separated by spaces; labels
\* with a parcel suffix next to their core and behind eleven other tokens.
RECURSIVE ShortTexts(_)
ShortTexts(n) ==
    IF n = 0 THEN {<<>>}
    ELSE LET shorter == ShortTexts(n - 1)
         IN shorter \cup {Append(t, ch) : t \in shorter, ch \in {" ", "-", "a", "1"}}
DigitOf(n) == <<"0", "1", "2", "3", "4", "5", "6", "7", "8", "9">>[n + 1]
Token(n) == <<"A", "0", "0", "0", DigitOf(n \div 10), DigitOf(n % 10)>>
RECURSIVE ManyTokens(_)
ManyTokens(n) == IF n = 1 THEN Token(1) ELSE ManyTokens(n - 1) \o <<" ">> \o Token(n)
CandInputs ==
    ShortTexts(3) \cup AwbInputs
    \cup {ManyTokens(2), ManyTokens(3), ManyTokens(MaxCandidates),
          Core10 \o <<"0", "0", "1", "/">> \o Core10,
          Core10 \o <<" ">> \o Core10 \o <<"0", "0", "1">>,
          ManyTokens(MaxCandidates - 1) \o <<" ">> \o Core10 \o <<"0", "0", "1">>,
          <<"A", "B", "1", "2", "3">>}

\* ------------------------------------------------------------ loop cadence
\* postis_poll_loop with time: now is time.monotonic(); a run lasts any number of ticks.
IdlePoll ==
    [at |-> "init", wake |-> 0, run_immediately |-> FALSE, next_run |-> 0,
     run_started |-> 0, began |-> 0, queued |-> FALSE, last_error |-> None]

\* _LAST_ERROR when a run ends (lines 212-214); it is None from the moment a run takes
\* the lock (line 205). The cadence model keeps it in poll.last_error.
SyncFailed == "sync failed"
ErrorAfterRunMutant(raised, err) == err
ErrorAfterRun(raised, err) == IF raised THEN SyncFailed ELSE err

\* line 628: next_run = run_started + float(cfg.interval_seconds)
NextRunAfterMutant(run_started, ended) == ended + IntervalTicks
NextRunAfter(run_started, ended) == run_started + IntervalTicks

\* Lines 604-605: run_started = time.monotonic(); run_sync_guarded(...) reaches
\* `async with _SYNC_LOCK` with the lock in state (owner, waiter).
CallGuarded(p, owner, waiter) ==
    IF owner = "none" /\ waiter = "none"
    THEN /\ poll' = [p EXCEPT !.at = "run", !.run_started = now, !.began = now,
                              !.queued = FALSE, !.last_error = None]
         /\ guardOwner' = "loop"
         /\ guardWaiter' = "none"
    ELSE /\ poll' = [p EXCEPT !.at = "lock", !.run_started = now, !.queued = TRUE]
         /\ guardOwner' = owner
         /\ guardWaiter' = "loop"

\* The top of `while True` (lines 599-602): sleep when sleep_s > 0, else run at once.
LoopTop(p, owner, waiter) ==
    LET sleep_s == p.next_run - now
    IN IF sleep_s > 0
       THEN /\ poll' = [p EXCEPT !.at = "sleep"]
            /\ guardOwner' = owner
            /\ guardWaiter' = waiter
       ELSE CallGuarded(p, owner, waiter)

\* Lines 594-596: next_run = time.monotonic(), plus the interval unless run_immediately.
AfterJitter(p) ==
    LoopTop([p EXCEPT !.next_run = now + (IF p.run_immediately THEN 0 ELSE IntervalTicks)],
            guardOwner, guardWaiter)

\* postis_poll_loop starts (lines 583-592): with startup_jitter_seconds set it sleeps
\* for random.uniform(0, startup_jitter_seconds).
PollBegin(startup_jitter_seconds, delay, run_immediately) ==
    /\ poll.at = "init"
    /\ delay \in 0 .. startup_jitter_seconds
    /\ LET p == [poll EXCEPT !.run_immediately = run_immediately]
       IN IF startup_jitter_seconds # 0
          THEN /\ poll' = [p EXCEPT !.at = "jitter", !.wake = now + delay]
               /\ UNCHANGED <<guardOwner, guardWaiter>>
          ELSE AfterJitter(p)
    /\ UNCHANGED <<orchVars, upsertVars, clientVars, changeVars, rowVars, identVars, endpointVars, now, manualAt,
                   lastRun>>

JitterDone ==
    /\ poll.at = "jitter"
    /\ now >= poll.wake
    /\ AfterJitter(poll)
    /\ UNCHANGED <<orchVars, upsertVars, clientVars, changeVars, rowVars, identVars, endpointVars, now, manualAt,
                   lastRun>>

\* asyncio.sleep(sleep_s) returns, not before next_run.
SleepDone ==
    /\ poll.at = "sleep"
    /\ now >= poll.next_run
    /\ CallGuarded(poll, guardOwner, guardWaiter)
    /\ UNCHANGED <<orchVars, upsertVars, clientVars, changeVars, rowVars, identVars, endpointVars, now, manualAt,
                   lastRun>>

\* run_sync_guarded returns or raises in the loop (lines 605-625): the lock goes to the
\* queued task, next_run is set (line 628) and the loop is at its top again without
\* having been suspended.
LoopRunEnd(raised) ==
    /\ poll.at = "run"
    /\ lastRun' = Some([asked |-> poll.run_started, began |-> poll.began, ended |-> now,
                        raised |-> raised])
    /\ manualAt' = IF guardWaiter = "manual" THEN "run" ELSE manualAt
    /\ LoopTop([poll EXCEPT !.next_run = NextRunAfter(poll.run_started, now),
                            !.last_error = IF guardWaiter = "manual" THEN None
                                           ELSE ErrorAfterRun(raised, @)],
               guardWaiter, "none")
    /\ UNCHANGED <<orchVars, upsertVars, clientVars, changeVars, rowVars, identVars, endpointVars, now>>

\* The task of a manual trigger reaches `async with _SYNC_LOCK`.
ManualCall ==
    /\ manualAt = "none"
    /\ IF guardOwner = "none" /\ guardWaiter = "none"
       THEN /\ manualAt' = "run"
            /\ guardOwner' = "manual"
            /\ poll' = [poll EXCEPT !.last_error = None]
            /\ UNCHANGED guardWaiter
       ELSE /\ manualAt' = "lock"
            /\ guardWaiter' = "manual"
            /\ UNCHANGED <<guardOwner, poll>>
    /\ UNCHANGED <<orchVars, upsertVars, clientVars, changeVars, rowVars, identVars, endpointVars, now,
                   lastRun>>

\* The manual run returns or raises and releases the lock; a queued loop run begins.
ManualEnd(raised) ==
    /\ manualAt = "run"
    /\ manualAt' = "none"
    /\ IF guardWaiter = "loop"
       THEN /\ guardOwner' = "loop"
            /\ guardWaiter' = "none"
            /\ poll' = [poll EXCEPT !.at = "run", !.began = now, !.last_error = None]
       ELSE /\ guardOwner' = "none"
            /\ poll' = [poll EXCEPT !.last_error = ErrorAfterRun(raised, @)]
            /\ UNCHANGED guardWaiter
    /\ UNCHANGED <<orchVars, upsertVars, clientVars, changeVars, rowVars, identVars, endpointVars, now, lastRun>>

Tick ==
    /\ now < MaxNow
    /\ now' = now + 1
    /\ UNCHANGED <<orchVars, upsertVars, clientVars, changeVars, rowVars, identVars, endpointVars, poll,
                   guardOwner, guardWaiter, manualAt, lastRun>>

\* ------------------------------------------------------------- upsert writer
\* Values are strings: None, "" (empty), " " (whitespace only), texts, and numbers
\* written as numerals. ship_data is given by logical field: the value the alias chain
\* of build_upsert_payload finds for it.
TextCols == {"recipient_name", "recipient_phone", "recipient_email", "delivery_address",
             "locality", "status", "content_description", "currency"}
NumCols == {"shipping_cost", "estimated_shipping_cost", "cod_amount", "declared_value",
            "number_of_parcels"}
Cols == TextCols \cup NumCols

\* _as_str: None becomes "", strings are stripped.
Strip(v) == IF v = " " THEN "" ELSE v
AsStr(v) == IF v = None THEN "" ELSE Strip(v)

\* Python truthiness of a field value, and `a or b`.
Truthy(v) == v \notin {None, "", "0"}
Or(a, b) == IF Truthy(a) THEN a ELSE b

\* _to_float: None and "" give None, and so does a string float() rejects.
ToNumber(v) == IF v \in {None, "", " "} THEN None ELSE v

\* int(number_of_parcels) raises on a whitespace-only string (line 772).
BuildRaises(d) == d.number_of_parcels = " "

\* _normalize_status (shipments_service.py)
StatusDefault == "pending"
NormalizeStatus(raw) ==
    LET text_val == AsStr(raw)
    IN IF text_val \in {"livrat", "delivered"} THEN "Delivered"
       ELSE IF text_val \in {"initial", "routed", "in transit"} THEN "In Transit"
       ELSE IF text_val \in {"refuzat", "refused"} THEN "Refused"
       ELSE Or(text_val, StatusDefault)

\* The columns build_upsert_payload derives from ship_data d (lines 743-772).
build_upsert_payload(d) ==
    [recipient_name |-> AsStr(Or(d.recipient_name, "Unknown")),
     recipient_phone |-> Or(AsStr(Or(d.recipient_phone, "")), None),
     recipient_email |-> Or(AsStr(Or(d.recipient_email, "")), None),
     delivery_address |-> AsStr(Or(d.delivery_address, "")),
     locality |-> AsStr(d.locality),
     status |-> NormalizeStatus(Or(d.status, None)),
     content_description |-> Or(AsStr(d.content_description), None),
     currency |-> Or(Or(AsStr(d.currency), None), "RON"),
     shipping_cost |-> ToNumber(d.shipping_cost),
     estimated_shipping_cost |-> ToNumber(d.estimated_shipping_cost),
     cod_amount |-> Or(ToNumber(Or(d.cod_amount, None)), "0"),
     declared_value |-> Or(ToNumber(Or(d.declared_value, None)), "0"),
     number_of_parcels |-> Or(d.number_of_parcels, "1")]

\* The test that keeps an incoming value from being written (lines 840-845).
SkipsValue(v) == v = None \/ Strip(v) = ""

\* upsert_shipment_and_events on the row (lines 805-858): a new row takes the payload
\* as it is, an existing row takes every value the test above lets through.
MergeRow(row, payload) ==
    IF row = Nothing THEN Some(payload)
    ELSE Some([c \in Cols |-> IF SkipsValue(payload[c]) THEN row[1][c] ELSE payload[c]])

upsert_shipment_and_events(d) ==
    /\ nUpserts < MaxUpserts
    /\ ship' = IF BuildRaises(d) THEN ship ELSE MergeRow(ship, build_upsert_payload(d))
    /\ lastShipData' = Some(d)
    /\ nUpserts' = nUpserts + 1
    /\ UNCHANGED <<orchVars, clientVars, changeVars, rowVars, identVars, cadenceVars, endpointVars>>

\* Incoming payloads: complete ones in two variants, and those with one field or with
\* every field missing (None), empty or whitespace-only.
FullData(v) ==
    [c \in Cols |->
        IF c \in NumCols THEN (IF v = 1 THEN "50" ELSE "75")
        ELSE IF c = "status" THEN (IF v = 1 THEN "livrat" ELSE "in depozit")
        ELSE IF c = "currency" THEN (IF v = 1 THEN "EUR" ELSE "USD")
        ELSE (IF v = 1 THEN "a" ELSE "b")]

BlankKinds == {None, "", " "}
Blanked(d, F, b) == [c \in Cols |-> IF c \in F THEN b ELSE d[c]]
ShipDatas ==
    {Blanked(FullData(v), F, b) :
        v \in {1, 2}, F \in {{}} \cup {{c} : c \in Cols} \cup {Cols}, b \in BlankKinds}

\* --------------------------------------------------------------- JSON values
\* A JSON object of a payload has the keys ObjKeys. The value of a key is missing, a
\* scalar (None, "", a whitespace-only string or a text) or a map over SubKeys, whose
\* values are "missing" or a scalar.
ObjKeys == {"address", "cost"}
SubKeys == {"lat"}
Missing == "missing"
Scalars == {None, "", " ", "a", "b"}
SubVals == {Missing} \cup Scalars
NoSub == [k \in SubKeys |-> Missing]
Absent == [kind |-> "missing", v |-> None, m |-> NoSub]
Scalar(s) == [kind |-> "scalar", v |-> s, m |-> NoSub]
MapOf(f) == [kind |-> "map", v |-> None, m |-> f]
Values == {Absent} \cup {Scalar(s) : s \in Scalars} \cup {MapOf(f) : f \in [SubKeys -> SubVals]}
Objects == [ObjKeys -> Values]
EmptyObject == [k \in ObjKeys |-> Absent]

\* ---------------------------------------------------- the row beyond its scalars
\* upsert_shipment_and_events on the columns SpecUpsert leaves out: driver_id,
\* recipient_pin, a JSON column (recipient_location) and the events of the row.
\* ship_data x carries recipientLocation (<<>> when it is missing, None or no dict),
\* its trace, and whatever it may hold under the keys driver_id and recipient_pin.

\* "Don't write empties" (lines 811-816 and 840-845): None, a blank string, an empty map.
NotWritten(nv) ==
    \/ nv.kind = "scalar" /\ SkipsValue(nv.v)
    \/ nv.kind = "map" /\ nv.m = NoSub

\* The nested loop of _merge_nonempty_dict (lines 819-827)
MergeNested(nested, nv) ==
    [nnk \in SubKeys |->
        IF nv[nnk] = Missing \/ SkipsValue(nv[nnk]) THEN nested[nnk] ELSE nv[nnk]]

\* _merge_nonempty_dict (lines 808-832)
merge_nonempty_dictMutant(existing_val, new_val) == new_val
merge_nonempty_dict(existing_val, new_val) ==
    [nk \in ObjKeys |->
        LET nv == new_val[nk]
            cur == existing_val[nk]
        IN IF nv.kind = "missing" \/ NotWritten(nv) THEN cur
           ELSE IF nv.kind = "map" /\ cur.kind = "map" THEN MapOf(MergeNested(cur.m, nv.m))
           ELSE nv]

\* build_upsert_payload, lines 618-620: recipient_loc is a dict, {} by default.
PayloadLocation(x) ==
    IF x.recipientLocation = <<>> THEN EmptyObject ELSE x.recipientLocation[1]

\* Lines 835 and 853: the assignment of the row is put back after the loop; the payload
\* of build_upsert_payload (lines 743-797) has no driver_id and no recipient_pin key.
DriverAfterMutant(existing_driver, x) == Or(x.driver_id, existing_driver)
DriverAfter(existing_driver, x) == existing_driver

\* Lines 862-882: an event of the trace without description and date is skipped; the
\* others are stored, a missing date as the time of the call.
NoDate == 0
KeepsEvent(ev) == ~(AsStr(ev.desc) = "" /\ ev.when = NoDate)
StoredEvents(trace, t) ==
    LET kept == SelectSeq(trace, KeepsEvent)
    IN [i \in 1 .. Len(kept) |->
          [event_description |-> Or(AsStr(kept[i].desc), "Update"),
           event_date |-> IF kept[i].when # NoDate THEN kept[i].when ELSE t]]
EventsAfter(events, trace, t) == IF trace = <<>> THEN events ELSE StoredEvents(trace, t)

\* Lines 805-882 on these columns, called at time t.
ApplyRow(row, x, t) ==
    LET loc == PayloadLocation(x)
    IN IF row = Nothing
       THEN [driver_id |-> None, recipient_pin |-> None, recipient_location |-> <<loc>>,
             events |-> EventsAfter(<<>>, x.trace, t)]
       ELSE LET existing == row[1]
                current == existing.recipient_location
            IN [driver_id |-> DriverAfter(existing.driver_id, x),
                recipient_pin |-> existing.recipient_pin,
                recipient_location |->
                    IF loc = EmptyObject THEN current
                    ELSE IF current # <<>> THEN <<merge_nonempty_dict(current[1], loc)>>
                    ELSE <<loc>>,
                events |-> EventsAfter(existing.events, x.trace, t)]

UpsertRecord(x) ==
    /\ rec' = Some(ApplyRow(rec, x, now))
    /\ lastCall' = Some(x)
    /\ callParity' = 1 - callParity
    /\ UNCHANGED <<orchVars, upsertVars, clientVars, changeVars, endpointVars, cadenceVars,
                   identVars, mergeIn, mergeOut>>

\* allocate_shipment (main.py): a dispatcher gives the shipment to a driver.
AssignDriver ==
    /\ rec # Nothing
    /\ rec[1].driver_id = None
    /\ rec' = Some([rec[1] EXCEPT !.driver_id = "D1"])
    /\ UNCHANGED <<orchVars, upsertVars, clientVars, changeVars, endpointVars, cadenceVars,
                   identVars, lastCall, callParity, mergeIn, mergeOut>>

\* send_chat_message (main.py): a shared location becomes the recipient pin.
SetPin ==
    /\ rec # Nothing
    /\ rec[1].recipient_pin = None
    /\ rec' = Some([rec[1] EXCEPT !.recipient_pin = "P1"])
    /\ UNCHANGED <<orchVars, upsertVars, clientVars, changeVars, endpointVars, cadenceVars,
                   identVars, lastCall, callParity, mergeIn, mergeOut>>

\* Incoming ship_data: complete and partial location maps, traces with dated and
\* undated events, with and without keys named like the ownership columns.
LocInputs ==
    {<<>>,
     <<[address |-> Scalar("a"), cost |-> MapOf([lat |-> "a"])]>>,
     <<[address |-> Absent, cost |-> Scalar("b")]>>,
     <<[address |-> Scalar(" "), cost |-> MapOf([lat |-> None])]>>,
     <<[address |-> Scalar("b"), cost |-> MapOf(NoSub)]>>,
     <<[address |-> MapOf([lat |-> "b"]), cost |-> MapOf([lat |-> "b"])]>>}
TraceInputs ==
    {<<>>,
     <<[desc |-> "e", when |-> 1]>>,
     <<[desc |-> "e", when |-> NoDate]>>,
     <<[desc |-> " ", when |-> NoDate], [desc |-> None, when |-> 1]>>}
RowDatas ==
    {[recipientLocation |-> l, trace |-> tr, driver_id |-> o[1], recipient_pin |-> o[2]] :
        l \in LocInputs, tr \in TraceInputs, o \in {<<None, None>>, <<"D2", "P2">>}}

\* ------------------------------------------------------- payload merging
\* _blank (postis_client.py): None, a blank string, an empty collection.
IsBlank(v) ==
    \/ v.kind = "scalar" /\ SkipsValue(v.v)
    \/ v.kind = "map" /\ v.m = NoSub

\* The "shallow nested fill" of _merge_fill_blanks (lines 318-323)
FillNested(nested, v) ==
    [nk \in SubKeys |->
        IF v[nk] = Missing THEN nested[nk]
        ELSE IF nested[nk] = Missing \/ SkipsValue(nested[nk]) THEN v[nk]
        ELSE nested[nk]]

\* _merge_fill_blanks on whole payloads, key by key (lines 308-324)
merge_fill_blanksMutant(primary, secondary) ==
    [k \in ObjKeys |-> IF secondary[k].kind # "missing" THEN secondary[k] ELSE primary[k]]
merge_fill_blanks(primary, secondary) ==
    [k \in ObjKeys |->
        LET v == secondary[k]
            out == primary[k]
        IN IF v.kind = "missing" THEN out
           ELSE IF out.kind = "missing" \/ IsBlank(out) THEN v
           ELSE IF out.kind = "map" /\ v.kind = "map" THEN MapOf(FillNested(out.m, v.m))
           ELSE out]

\* merged = _merge_fill_blanks(by_awb, base_data) (line 471)
MergeFill ==
    /\ mergeIn # Nothing
    /\ mergeOut = <<>>
    /\ mergeOut' = <<merge_fill_blanks(mergeIn[1].primary, mergeIn[1].secondary)>>
    /\ UNCHANGED <<orchVars, upsertVars, clientVars, changeVars, endpointVars, cadenceVars,
                   identVars, rec, lastCall, callParity, mergeIn>>

\* The result merged with the same secondary payload once more.
MergeAgain ==
    /\ mergeIn # Nothing
    /\ Len(mergeOut) = 1
    /\ mergeOut' = Append(mergeOut, merge_fill_blanks(mergeOut[1], mergeIn[1].secondary))
    /\ UNCHANGED <<orchVars, upsertVars, clientVars, changeVars, endpointVars, cadenceVars,
                   identVars, rec, lastCall, callParity, mergeIn>>

\* ------------------------------------------------------------ gateway client
\* Identifiers: a scanned label "full" (with a parcel suffix), its "core" AWB, and
\* "other", an AWB the resolve endpoint may return for a client order id.
Idents == {"full", "core", "other"}

\* candidates_with_optional_parcel_suffix_stripped
CandidatesOf(id) == IF id = "full" THEN <<"full", "core">> ELSE <<id>>

\* A payload is the set of its non-blank fields and the identifier its awb field holds.
LocationFields == {"county", "locality", "address", "phone"}
EmptyPayload == [f |-> {}, awb |-> None]
IsEmpty(p) == p.f = {} /\ p.awb = None

\* _score_payload on the fields modelled: "weight" stands for the seven measures of
\* line 385, of which one is modelled.
Has(p, k, w) == IF k \in p.f THEN w ELSE 0
ScoreMutant(p) ==
    IF IsEmpty(p) THEN 0
    ELSE (IF p.awb # None THEN 2 ELSE 0) + (IF p.f \cap LocationFields # {} THEN 1 ELSE 0)
Score(p) ==
    IF IsEmpty(p) THEN 0
    ELSE (IF p.awb # None THEN 2 ELSE 0)
         + (IF p.f \cap LocationFields # {} THEN 1 ELSE 0)
         + Has(p, "county", 3) + Has(p, "locality", 2) + Has(p, "address", 2)
         + Has(p, "phone", 1) + Has(p, "cost", 2) + Has(p, "content", 2)
         + Has(p, "parcels", 3) + Has(p, "weight", 1) + Has(p, "services", 1)
         + Has(p, "trace", 1)

\* _score_payload applied to the first payload drawn, then to the second.
ScorePayload ==
    /\ scoreIn # Nothing
    /\ Len(scoreOut) < 2
    /\ scoreOut' = Append(scoreOut, Score(scoreIn[1][Len(scoreOut) + 1]))
    /\ UNCHANGED <<orchVars, upsertVars, changeVars, rowVars, identVars, cadenceVars,
                   endpointVars, cl, token, nCalls, prev, unsupCall, scoreIn,
                   listIn, lst>>

ScoredFields ==
    LocationFields \cup {"cost", "content", "parcels", "weight", "services", "trace"}
ScoredPayloads == [f : SUBSET ScoredFields, awb : {None, "core"}]
ThinPayloads == {EmptyPayload, [f |-> {}, awb |-> "core"], [f |-> {"trace"}, awb |-> "core"]}

\* _merge_fill_blanks(primary, secondary)
MergeFillBlanks(primary, secondary) ==
    [f |-> primary.f \cup secondary.f,
     awb |-> IF primary.awb # None THEN primary.awb ELSE secondary.awb]

\* What the gateway may answer with status 200 to a request for identifier id.
GatewayPayloads(id, resolver) ==
    {EmptyPayload,
     [f |-> {}, awb |-> id],
     [f |-> {"parcels", "cost"}, awb |-> None],
     [f |-> {"county", "locality", "address"}, awb |-> id]}
    \cup (IF resolver THEN {[f |-> {}, awb |-> "other"]} ELSE {})

Statuses == {"200", "401", "404", "405", "501", "429", "500", "exc"}

IdleClient ==
    [pc |-> "start", cands |-> <<>>, i |-> 0, pass |-> "none", awbQ |-> <<>>,
     base |-> EmptyPayload, best |-> EmptyPayload, bestScore |-> -1,
     cache |-> [x \in Idents |-> Nothing], sent |-> 0, target |-> None,
     unsup |-> FALSE, asked |-> {}, seen |-> {}]

\* The call obtained the payloads ps: seen holds the scores of the non-empty ones.
Obtain(c, ps) == [c EXCEPT !.seen = @ \cup {Score(p) : p \in {q \in ps : ~IsEmpty(q)}}]

\* _consider
ConsiderMutant(c, p) ==
    IF ~IsEmpty(p) THEN [c EXCEPT !.best = p, !.bestScore = Score(p)] ELSE c
Consider(c, p) ==
    IF ~IsEmpty(p) /\ Score(p) > c.bestScore
    THEN [c EXCEPT !.best = p, !.bestScore = Score(p)]
    ELSE c

Return(c) == [c EXCEPT !.pc = "done", !.target = None, !.sent = 0]
Raise(c) == [c EXCEPT !.pc = "raised", !.target = None, !.sent = 0]
Pending(c, endpoint, id) == [c EXCEPT !.pc = endpoint, !.target = id, !.sent = 0]

\* The control flow of get_shipment_tracking_by_awb_or_client_order_id from one request
\* to the next: the second pass from candidate i on (lines 483-494), ...
RECURSIVE SecondPassAt(_)
SecondPassAt(c) ==
    IF c.i > Len(c.cands) THEN Return(c)
    ELSE LET a == c.cands[c.i]
         IN IF c.cache[a] = Nothing THEN Pending(c, "primary", a)
            ELSE LET c2 == Consider(c, c.cache[a][1])
                 IN IF ~IsEmpty(c.cache[a][1]) /\ c2.bestScore >= GoodEnough THEN Return(c2)
                    ELSE SecondPassAt([c2 EXCEPT !.i = @ + 1])

\* ... the first pass from candidate i on (lines 427-443), ...
FirstPassAt(c) ==
    IF c.i > Len(c.cands) THEN SecondPassAt([c EXCEPT !.pass = "second", !.i = 1])
    ELSE Pending([c EXCEPT !.awbQ = <<>>], "resolve", c.cands[c.i])

\* `break` on 405/501 (line 443)
AfterUnsupportedMutant(c) == FirstPassAt([c EXCEPT !.i = @ + 1])
AfterUnsupported(c) == SecondPassAt([c EXCEPT !.pass = "second", !.i = 1])

\* ... and the re-fetch by AWB of a resolved payload (lines 461-476).
RECURSIVE InnerStep(_)
InnerStep(c) ==
    IF c.awbQ = <<>> THEN FirstPassAt([c EXCEPT !.i = @ + 1])
    ELSE LET a == Head(c.awbQ)
         IN IF c.cache[a] = Nothing THEN Pending(c, "primary", a)
            ELSE LET by_awb == c.cache[a][1]
                     merged == MergeFillBlanks(by_awb, c.base)
                     c2 == IF IsEmpty(by_awb) THEN c
                           ELSE Consider(Obtain(c, {merged}), merged)
                 IN IF ~IsEmpty(by_awb) /\ c2.bestScore >= GoodEnough THEN Return(c2)
                    ELSE InnerStep([c2 EXCEPT !.awbQ = Tail(@)])

\* awb_candidates of lines 453-459
AwbCandidates(resolved_awb, candidate) ==
    LET a == CandidatesOf(resolved_awb)
        b == SelectSeq(CandidatesOf(candidate), LAMBDA x : x \notin Range(a))
    IN a \o b

\* ------------------------------------------------------------- list fetch
\* A list page is a sequence of entries; "junk" is an entry that is not a dictionary.
PageSize == 2
Entries == {"a", "b", "junk"}
IsDict(b) == b # "junk"
ListPages == UNION {[1 .. n -> Entries] : n \in 0 .. PageSize}
ListInputs == UNION {[1 .. n -> ListPages] : n \in 0 .. MaxPages}

\* client.get_shipments(limit=page_size, page=page): nothing beyond the last page held
get_shipments(page) == IF page <= Len(listIn) THEN listIn[page] ELSE <<>>

\* len(batch) < page_size (line 433)
IsShortMutant(batch) == Len(batch) <= PageSize
IsShort(batch) == Len(batch) < PageSize

IdleList == [pc |-> "fetch", page |-> 1, out |-> <<>>, asked |-> <<>>]

\* One iteration of the loop of _fetch_all_shipments_v3 (lines 427-435).
FetchPage ==
    /\ lst.pc = "fetch"
    /\ LET batch == get_shipments(lst.page)
           got == [lst EXCEPT !.asked = Append(@, lst.page)]
       IN lst' = IF batch = <<>> THEN [got EXCEPT !.pc = "done"]
                 ELSE LET ext == [got EXCEPT !.out = @ \o SelectSeq(batch, IsDict)]
                      IN IF IsShort(batch) THEN [ext EXCEPT !.pc = "done"]
                         ELSE [ext EXCEPT !.page = @ + 1]
    /\ UNCHANGED <<orchVars, upsertVars, changeVars, rowVars, identVars, cadenceVars,
                   endpointVars, cl, token, nCalls, prev, unsupCall, scoreIn, scoreOut,
                   listIn>>

\* A detail fetch starts (fetch_one of _fetch_details_by_awb).
StartDetail(identifier) ==
    /\ cl.pc \in {"idle", "done", "raised"}
    /\ nCalls < MaxCalls
    /\ nCalls' = nCalls + 1
    /\ cl' = FirstPassAt([IdleClient EXCEPT !.cands = CandidatesOf(identifier), !.i = 1,
                                             !.pass = "first"])
    /\ UNCHANGED <<orchVars, upsertVars, changeVars, rowVars, identVars, cadenceVars, endpointVars, token, prev, unsupCall, scoreIn, scoreOut,
                   listIn, lst>>

\* The first list page is requested (get_shipments).
StartList ==
    /\ cl.pc = "start"
    /\ cl' = Pending(cl, "list", None)
    /\ UNCHANGED <<orchVars, upsertVars, changeVars, rowVars, identVars, cadenceVars, endpointVars, token, nCalls, prev, unsupCall, scoreIn, scoreOut,
                   listIn, lst>>

\* get_token() with no token held: login() raised, no request was sent.
LoginFailed == [endpoint |-> "login", cand |-> None, resp |-> "exc"]

\* get_shipments answered with resp; a 401 is followed by login() and by the same call
\* again (lines 521-525), a failed login raises out of get_shipments.
ListRespond(resp, loginOk) ==
    /\ cl.pc = "list"
    /\ cl.sent < MaxSends
    /\ IF ~token /\ ~loginOk
       THEN /\ cl' = Raise(cl)
            /\ prev' = LoginFailed
            /\ UNCHANGED token
       ELSE /\ prev' = [endpoint |-> "list", cand |-> None, resp |-> resp]
            /\ IF resp = "401"
               THEN /\ token' = loginOk
                    /\ cl' = IF loginOk THEN [cl EXCEPT !.sent = @ + 1] ELSE Raise(cl)
               ELSE /\ token' = TRUE
                    /\ cl' = [cl EXCEPT !.pc = "idle", !.target = None, !.sent = 0]
    /\ UNCHANGED <<orchVars, upsertVars, changeVars, rowVars, identVars, cadenceVars, endpointVars, nCalls, unsupCall, scoreIn, scoreOut,
                   listIn, lst>>

\* The resolve endpoint answered the request for candidate cl.target (lines 428-480).
\* Any exception inside the try block moves to the next candidate.
RetryLimit == 1

ResolveRespond(resp, payload, loginOk) ==
    /\ cl.pc = "resolve"
    /\ cl.sent < MaxSends
    /\ payload \in GatewayPayloads(cl.target, TRUE)
    /\ LET next == [cl EXCEPT !.i = @ + 1]
       IN IF ~token /\ ~loginOk
          THEN /\ cl' = FirstPassAt(next)
               /\ prev' = LoginFailed
               /\ UNCHANGED <<token, unsupCall>>
          ELSE /\ prev' = [endpoint |-> "resolve", cand |-> cl.target, resp |-> resp]
               /\ IF resp = "401" /\ cl.sent < RetryLimit
                  THEN /\ token' = loginOk
                       /\ cl' = IF loginOk THEN [cl EXCEPT !.sent = @ + 1] ELSE FirstPassAt(next)
                       /\ UNCHANGED unsupCall
                  ELSE /\ token' = TRUE
                       /\ IF resp \in {"405", "501"}
                          THEN /\ cl' = AfterUnsupported([cl EXCEPT !.unsup = TRUE])
                               /\ unsupCall' = IF unsupCall = 0 THEN nCalls ELSE unsupCall
                          ELSE /\ UNCHANGED unsupCall
                               /\ IF resp # "200" \/ IsEmpty(payload)
                                  THEN cl' = FirstPassAt(next)
                                  ELSE LET resolved_awb == IF payload.awb # None THEN payload.awb
                                                           ELSE cl.target
                                           c2 == Consider(Obtain(cl, {payload}), payload)
                                       IN cl' = InnerStep([c2 EXCEPT !.base = payload,
                                                 !.awbQ = AwbCandidates(resolved_awb, cl.target)])
    /\ UNCHANGED <<orchVars, upsertVars, changeVars, rowVars, identVars, cadenceVars, endpointVars, nCalls, scoreIn, scoreOut,
                   listIn, lst>>

\* get_shipment_tracking(cl.target) answered (lines 237-264): a 401 is followed by
\* login() and by the same call again, every other failure gives {}. A failed login
\* raises: inside the first pass that moves to the next candidate (line 479), in the
\* second pass it ends the detail fetch.
PrimaryRespond(resp, payload, loginOk) ==
    /\ cl.pc = "primary"
    /\ cl.sent < MaxSends
    /\ payload \in GatewayPayloads(cl.target, FALSE)
    /\ LET raised == IF cl.pass = "first" THEN FirstPassAt([cl EXCEPT !.i = @ + 1])
                     ELSE Raise(cl)
           by_awb == IF resp = "200" THEN payload ELSE EmptyPayload
           got == Obtain([cl EXCEPT !.cache[cl.target] = Some(by_awb),
                                    !.asked = @ \cup {cl.target}], {by_awb})
       IN IF ~token /\ ~loginOk
          THEN /\ cl' = raised
               /\ prev' = LoginFailed
               /\ UNCHANGED token
          ELSE /\ prev' = [endpoint |-> "primary", cand |-> cl.target, resp |-> resp]
               /\ IF resp = "401"
                  THEN /\ token' = loginOk
                       /\ cl' = IF loginOk
                                THEN [cl EXCEPT !.sent = @ + 1, !.asked = @ \cup {cl.target}]
                                ELSE raised
                  ELSE /\ token' = TRUE
                       /\ cl' = IF cl.pass = "first" THEN InnerStep(got) ELSE SecondPassAt(got)
    /\ UNCHANGED <<orchVars, upsertVars, changeVars, rowVars, identVars, cadenceVars, endpointVars, nCalls, unsupCall, scoreIn, scoreOut,
                   listIn, lst>>

\* ---------------------------------------------------------- change detector
\* remote_state maps an identifier to (awbStatusDate, status, processingStatus) of the
\* list item; existing maps the identifiers of the shipments rows to the stored
\* (status, awb_status_date, processing_status); raw_missing are the rows without
\* raw_data.
Casefold(text) == IF text = "A" THEN "a" ELSE IF text = "B" THEN "b" ELSE text
TextOf(v) == IF v = None THEN "" ELSE v

\* remote_dt > ex_dt, with ex_dt None counting as older (line 318)
NewerThanMutant(remote_dt, ex_dt) == ex_dt = NoTime \/ remote_dt >= ex_dt
NewerThan(remote_dt, ex_dt) == ex_dt = NoTime \/ remote_dt > ex_dt

\* The comparison of lines 322-327 and 329-334.
TextChanged(remote_text, ex_text) ==
    LET r == TextOf(remote_text)
        e == TextOf(ex_text)
    IN r # "" /\ (e = "" \/ Casefold(e) # Casefold(r))

\* ex is None (line 306)
IsNewMutant(existing, awb) == awb \notin DOMAIN existing \/ existing[awb].status = None
IsNew(existing, awb) == awb \notin DOMAIN existing

\* The body of the loop of lines 304-334 for one identifier.
IsChanged(remote_state, existing, missing_raw, awb) ==
    \/ IsNew(existing, awb)
    \/ awb \in missing_raw
    \/ /\ remote_state[awb].dt # NoTime
       /\ NewerThan(remote_state[awb].dt, existing[awb].dt)
    \/ TextChanged(remote_state[awb].status, existing[awb].status)
    \/ TextChanged(remote_state[awb].proc, existing[awb].proc)

\* The sort key of lines 338-345 with reverse=True: a comes before b.
SortsBeforeMutant(remote_state, a, b) ==
    LET ka == remote_state[a].dt
        kb == remote_state[b].dt
    IN ka < kb \/ (ka = kb /\ a < b)
SortsBefore(remote_state, a, b) ==
    LET ha == remote_state[a].dt # NoTime
        hb == remote_state[b].dt # NoTime
        ka == remote_state[a].dt
        kb == remote_state[b].dt
    IN \/ ha /\ ~hb
       \/ ha = hb /\ ka > kb
       \/ ha = hb /\ ka = kb /\ a > b

RECURSIVE SortedFirst(_, _, _)
SortedFirst(remote_state, S, n) ==
    IF n = 0 \/ S = {} THEN <<>>
    ELSE LET m == CHOOSE x \in S : \A y \in S \ {x} : SortsBefore(remote_state, x, y)
         IN <<m>> \o SortedFirst(remote_state, S \ {m}, n - 1)

\* _db_select_changed_awbs: `all` is the list `changed` before line 336.
db_select_changed_awbs(remote_state, existing, raw_missing, max_awbs_per_run, include_missing_raw) ==
    LET missing_raw == IF include_missing_raw THEN raw_missing ELSE {}
        all == {a \in DOMAIN remote_state : IsChanged(remote_state, existing, missing_raw, a)}
        new == {a \in DOMAIN remote_state : IsNew(existing, a)}
    IN [all |-> SetToSeq(all),
        changed |-> IF max_awbs_per_run # NoCap /\ Cardinality(all) > max_awbs_per_run
                    THEN SortedFirst(remote_state, all, max_awbs_per_run)
                    ELSE SetToSeq(all),
        new_count |-> Cardinality(new)]

NoChangeInput ==
    [remote_state |-> <<>>, existing |-> <<>>, raw_missing |-> {},
     max_awbs_per_run |-> NoCap, include_missing_raw |-> FALSE]

\* asyncio.to_thread(_db_select_changed_awbs, remote_state, ...) on the input drawn.
SelectChangedAwbs ==
    /\ chgOut = Nothing
    /\ DOMAIN chgIn.remote_state # {}
    /\ chgOut' = Some(db_select_changed_awbs(chgIn.remote_state, chgIn.existing, chgIn.raw_missing,
                                             chgIn.max_awbs_per_run, chgIn.include_missing_raw))
    /\ UNCHANGED <<orchVars, upsertVars, clientVars, endpointVars, cadenceVars, identVars,
                   rowVars, chgIn, syncIn, sync>>

\* Inputs. The remote status is what _normalize_status returns, never blank; the
\* processing status is None when the list item has none.
Times == 0 .. MaxTime
RemoteTuples == [dt : Times, status : {"A", "B"}, proc : {None, "A"}]
StoredTuples == [status : {None, "a", "B"}, dt : Times, proc : {None, "a", "B"}]

\* One identifier in every relation to its row, next to a second one that is new,
\* unchanged or not in the list.
ProfileInputs ==
    {[remote_state |-> r, existing |-> e, raw_missing |-> DOMAIN e \cap m,
      max_awbs_per_run |-> cap, include_missing_raw |-> imr] :
        r \in {f \in UNION {[D -> RemoteTuples] : D \in {{1}, {1, 2}}} :
                 2 \in DOMAIN f => f[2] = [dt |-> 1, status |-> "A", proc |-> None]},
        e \in {g \in UNION {[D -> StoredTuples] : D \in SUBSET {1, 2}} :
                 2 \in DOMAIN g => g[2] = [status |-> "a", dt |-> 1, proc |-> None]},
        m \in SUBSET {1}, cap \in {NoCap, 1}, imr \in BOOLEAN}

\* Several identifiers, new or unchanged, with every combination of timestamps.
CapAwbs == 1 .. (NumAwbs + 1)
CapInputs ==
    {[remote_state |-> [a \in CapAwbs |-> [dt |-> t[a], status |-> "A", proc |-> None]],
      existing |-> [a \in E |-> [status |-> "a", dt |-> t[a], proc |-> None]],
      raw_missing |-> {}, max_awbs_per_run |-> cap, include_missing_raw |-> FALSE] :
        t \in [CapAwbs -> Times], E \in SUBSET CapAwbs, cap \in {NoCap} \cup CapAwbs}

\* ------------------------------------------------------------ specifications
InitProgram ==
    /\ pc = [t \in Tasks |-> IF t = Loop THEN "start" ELSE "none"]
    /\ lockHolder = NoTask
    /\ lockWaiters = <<>>
    /\ SYNC_RUNNING = FALSE
    /\ SYNC_RUNNING_SINCE = Nothing
    /\ LAST_TRIGGER = None
    /\ LAST_ERROR = None
    /\ LAST_STATS = Nothing
    /\ MANUAL_TASK = NoTask
    /\ taskResult = [t \in Tasks |-> [kind |-> "none"]]
    /\ callers = [c \in Callers |-> IdleCall]
    /\ local = [t \in Tasks |-> EmptyLocal]
    /\ store = [a \in AllAwbs |-> "absent"]
    /\ orphan = Nothing
    /\ clock = 0
    /\ cancelledAt = None
    /\ hist = [stats |-> Nothing, error |-> None, outcome |-> "none", cancelClock |-> -1]
    /\ ship = Nothing
    /\ lastShipData = Nothing
    /\ nUpserts = 0
    /\ cl = IdleClient
    /\ token = FALSE
    /\ nCalls = 0
    /\ prev = [endpoint |-> None, cand |-> None, resp |-> None]
    /\ unsupCall = 0
    /\ scoreOut = <<>>
    /\ lst = IdleList
    /\ chgOut = Nothing
    /\ sync = IdleSync
    /\ req = NoRequest
    /\ now = 0
    /\ poll = IdlePoll
    /\ guardOwner = "none"
    /\ guardWaiter = "none"
    /\ manualAt = "none"
    /\ lastRun = Nothing
    /\ table = <<>>
    /\ session = <<>>
    /\ keyErrors = 0
    /\ candOut = Nothing
    /\ normOut = <<>>
    /\ rec = Nothing
    /\ lastCall = Nothing
    /\ callParity = 0
    /\ mergeOut = <<>>

InitCommon ==
    /\ InitProgram
    /\ chgIn = NoChangeInput
    /\ syncIn = <<>>
    /\ rawIn = <<>>
    /\ scoreIn = Nothing
    /\ listIn = <<>>
    /\ mergeIn = Nothing
    /\ creds = TRUE

\* The orchestrator: the loop and every caller, over a remote list of one identifier.
Init ==
    /\ InitCommon
    /\ remote = OrchAwbs
    /\ cfg = [concurrency |-> 1, include_missing_raw |-> FALSE, max_awbs_per_run |-> NoCap,
              dialect |-> "sqlite"]

\* The sets of items whose upsert may raise, with and without per-item failures.
FailSets(itemFailures) == IF itemFailures THEN SUBSET remote ELSE {{}}

\* The steps of a run in task t.
RunStep(t, itemFailures) ==
    \/ \E items \in {remote, {}} : ListFetchDone(t, items)
    \/ \E again \in Agains(t) : ListFetchRaise(t, again)
    \/ SelectDone(t)
    \/ \E again \in Agains(t) : SelectRaise(t, again)
    \/ \E fails \in FailSets(itemFailures), again \in Agains(t) : ListUpsertDone(t, fails, again)
    \/ FetchStart(t)
    \/ \E a \in remote : FetchOk(t, a)
    \/ DetailFetchDone(t)
    \/ \E fails \in FailSets(itemFailures), again \in Agains(t) : DetailUpsertDone(t, fails, again)

\* The scheduled loop around its runs, and its cancellation at shutdown.
LoopStep(itemFailures) ==
    \/ \E to \in {"jitter", "sleep"} : LoopStartSleep(to)
    \/ LoopJitterDone
    \/ LoopWake
    \/ Cancel
    \/ \E fails \in FailSets(itemFailures) : OrphanDone(fails)

\* The callers of the manual trigger and the tasks they create.
CallerStep ==
    \/ \E t \in Tasks : LockWake(t)
    \/ \E c \in Callers, wait \in BOOLEAN : postis_sync_trigger(c, wait, "quick", Nothing)
    \/ \E t \in Callers : ManualTaskStart(t)
    \/ \E c \in Callers : AwaitDone(c)

\* Spec: every task and caller; whole runs fail (login, database query), single items
\* do not (SpecRun has those).
Next ==
    \/ \E t \in Tasks : RunStep(t, FALSE)
    \/ LoopStep(FALSE)
    \/ CallerStep

Spec == Init /\ [][Next]_vars

\* SpecRun: the runs of the scheduled loop in detail. The remote list has NumAwbs
\* identifiers, any detail fetch and any upsert may fail, under every configuration.
InitRun ==
    /\ InitCommon
    /\ remote = RunAwbs
    /\ \E w \in 1 .. MaxConcurrency, imr \in BOOLEAN, cap \in {NoCap, 1}, d \in Dialects :
         cfg = [concurrency |-> w, include_missing_raw |-> imr, max_awbs_per_run |-> cap,
                dialect |-> d]

NextRun ==
    \/ RunStep(Loop, TRUE)
    \/ \E a \in remote : FetchFail(Loop, a)
    \/ LoopStep(TRUE)

SpecRun == InitRun /\ [][NextRun]_vars

\* SpecUpsert: the upsert writer on one row, field by field.
NextUpsert == \E d \in ShipDatas : upsert_shipment_and_events(d)

SpecUpsert == Init /\ [][NextUpsert]_vars

\* SpecClient: the gateway client during one run: the list fetch, then detail fetches
\* one after the other, the gateway answering each request in any way.
NextClient ==
    \/ StartList
    \/ \E resp \in Statuses, loginOk \in BOOLEAN : ListRespond(resp, loginOk)
    \/ \E id \in {"full", "core"} : StartDetail(id)
    \/ \E resp \in Statuses, loginOk \in BOOLEAN :
         \E payload \in GatewayPayloads(cl.target, TRUE) : ResolveRespond(resp, payload, loginOk)
    \/ \E resp \in Statuses, loginOk \in BOOLEAN :
         \E payload \in GatewayPayloads(cl.target, FALSE) : PrimaryRespond(resp, payload, loginOk)

SpecClient == Init /\ [][NextClient]_vars

\* SpecChanges: _db_select_changed_awbs applied to every input drawn.
InitChanges ==
    /\ InitProgram
    /\ remote = OrchAwbs
    /\ cfg = [concurrency |-> 1, include_missing_raw |-> FALSE, max_awbs_per_run |-> NoCap,
              dialect |-> "sqlite"]
    /\ chgIn \in ProfileInputs \cup CapInputs
    /\ syncIn = <<>>
    /\ rawIn = <<>>
    /\ scoreIn = Nothing
    /\ listIn = <<>>
    /\ mergeIn = Nothing
    /\ creds = TRUE

NextChanges == SelectChangedAwbs

SpecChanges == InitChanges /\ [][NextChanges]_vars

\* SpecTrigger: the endpoint with every mode and limit, with and without credentials,
\* next to the scheduled loop. One operator sends the requests.
Operators == {1}
Modes == {"quick", "full", "backfill"}
Limits == {Nothing, Some(0), Some(1)}

InitTrigger ==
    /\ InitProgram
    /\ chgIn = NoChangeInput
    /\ syncIn = <<>>
    /\ rawIn = <<>>
    /\ scoreIn = Nothing
    /\ listIn = <<>>
    /\ mergeIn = Nothing
    /\ creds \in BOOLEAN
    /\ remote = OrchAwbs
    /\ cfg = [concurrency |-> 1, include_missing_raw |-> FALSE, max_awbs_per_run |-> NoCap,
              dialect |-> "sqlite"]

NextTrigger ==
    \/ \E t \in Tasks : RunStep(t, FALSE)
    \/ \E to \in {"jitter", "sleep"} : LoopStartSleep(to)
    \/ LoopJitterDone
    \/ LoopWake
    \/ \E t \in Tasks : LockWake(t)
    \/ \E c \in Operators, wait \in BOOLEAN, mode \in Modes, limit \in Limits :
         postis_sync_trigger(c, wait, mode, limit)
    \/ \E t \in Operators : ManualTaskStart(t)
    \/ \E c \in Operators : AwaitDone(c)

SpecTrigger == InitTrigger /\ [][NextTrigger]_vars

\* SpecCadence: the scheduled loop against the clock, with a manual run competing
\* for the lock.
NextCadence ==
    \/ \E jitter \in {0, MaxJitter}, immediately \in BOOLEAN :
         \E delay \in 0 .. jitter : PollBegin(jitter, delay, immediately)
    \/ JitterDone
    \/ SleepDone
    \/ \E raised \in BOOLEAN : LoopRunEnd(raised)
    \/ ManualCall
    \/ \E raised \in BOOLEAN : ManualEnd(raised)
    \/ Tick

SpecCadence == Init /\ [][NextCadence]_vars

\* SpecKeys: the rows of the shipments table under upserts of any raw identifier, with
\* the commits and rollbacks of the batch writers.
NextKeys ==
    \/ \E raw \in AwbInputs : UpsertKey(raw, TRUE)
    \/ CommitRows
    \/ RollbackRows

InitKeys ==
    /\ InitCommon
    /\ remote = OrchAwbs
    /\ \E dialect \in {"sqlite", "postgresql"} :
         cfg = [concurrency |-> 1, include_missing_raw |-> FALSE,
                max_awbs_per_run |-> NoCap, dialect |-> dialect]

SpecKeys == InitKeys /\ [][NextKeys]_vars

\* SpecRaw: the batch writers of the list payloads (store_raw_data off) and of the detail
\* payloads (on) on the same rows.
RawInputs == {<<>>, Core10, Core10 \o <<"0", "0", "2">>, Num10 \o <<"0", "0", "1">>}

NextRaw ==
    \/ \E raw \in RawInputs, store_raw_data \in BOOLEAN : UpsertKey(raw, store_raw_data)
    \/ CommitRows
    \/ RollbackRows

SpecRaw == InitKeys /\ [][NextRaw]_vars

\* SpecRow: one shipments row under upserts of any ship_data, with the dispatcher and
\* the recipient writing its ownership columns, against the clock.
NextRow ==
    \/ \E x \in RowDatas : UpsertRecord(x)
    \/ AssignDriver
    \/ SetPin
    \/ Tick

SpecRow == Init /\ [][NextRow]_vars

\* SpecMerge: _merge_fill_blanks on every pair of payloads over two keys.
InitMerge ==
    /\ InitProgram
    /\ chgIn = NoChangeInput
    /\ syncIn = <<>>
    /\ rawIn = <<>>
    /\ scoreIn = Nothing
    /\ listIn = <<>>
    /\ creds = TRUE
    /\ remote = OrchAwbs
    /\ cfg = [concurrency |-> 1, include_missing_raw |-> FALSE, max_awbs_per_run |-> NoCap,
              dialect |-> "sqlite"]
    /\ \E primary \in Objects, secondary \in Objects :
         mergeIn = Some([primary |-> primary, secondary |-> secondary])

NextMerge ==
    \/ MergeFill
    \/ MergeAgain

SpecMerge == InitMerge /\ [][NextMerge]_vars

\* SpecCandidates: the candidate builder and normalize on every scanned text.
InitCandidates ==
    /\ InitProgram
    /\ chgIn = NoChangeInput
    /\ syncIn = <<>>
    /\ mergeIn = Nothing
    /\ creds = TRUE
    /\ remote = OrchAwbs
    /\ cfg = [concurrency |-> 1, include_missing_raw |-> FALSE, max_awbs_per_run |-> NoCap,
              dialect |-> "sqlite"]
    /\ rawIn \in CandInputs
    /\ scoreIn = Nothing
    /\ listIn = <<>>

NextCandidates ==
    \/ BuildCandidates
    \/ Normalize
    \/ NormalizeAgain

SpecCandidates == InitCandidates /\ [][NextCandidates]_vars

\* SpecScore: _score_payload on pairs of payloads, any payload against a thin one.
InitScore ==
    /\ InitProgram
    /\ chgIn = NoChangeInput
    /\ syncIn = <<>>
    /\ rawIn = <<>>
    /\ mergeIn = Nothing
    /\ creds = TRUE
    /\ remote = OrchAwbs
    /\ cfg = [concurrency |-> 1, include_missing_raw |-> FALSE, max_awbs_per_run |-> NoCap,
              dialect |-> "sqlite"]
    /\ \E p1 \in ScoredPayloads, p2 \in ThinPayloads : scoreIn = Some(<<p1, p2>>)
    /\ listIn = <<>>

NextScore == ScorePayload

SpecScore == InitScore /\ [][NextScore]_vars

\* SpecList: _fetch_all_shipments_v3 against every gateway of up to MaxPages pages; the
\* coroutine is awaited by the run, so an enabled iteration is eventually taken.
InitList ==
    /\ InitProgram
    /\ chgIn = NoChangeInput
    /\ syncIn = <<>>
    /\ rawIn = <<>>
    /\ scoreIn = Nothing
    /\ mergeIn = Nothing
    /\ creds = TRUE
    /\ remote = OrchAwbs
    /\ cfg = [concurrency |-> 1, include_missing_raw |-> FALSE, max_awbs_per_run |-> NoCap,
              dialect |-> "sqlite"]
    /\ listIn \in ListInputs

NextList == FetchPage

SpecList == InitList /\ [][NextList]_vars /\ WF_vars(FetchPage)

\* SpecSync: run after run of the scheduled loop against an unchanged remote list. The
\* loop keeps scheduling runs (weak fairness of the run), and the detail fetch of an
\* identifier that is selected again and again eventually succeeds in a run whose
\* upserts succeed (strong fairness of such a run).
InitSync ==
    /\ InitProgram
    /\ chgIn = NoChangeInput
    /\ rawIn = <<>>
    /\ scoreIn = Nothing
    /\ listIn = <<>>
    /\ mergeIn = Nothing
    /\ creds = TRUE
    /\ remote = OrchAwbs
    /\ \E imr \in BOOLEAN, cap \in {NoCap, 1} :
         cfg = [concurrency |-> 1, include_missing_raw |-> imr, max_awbs_per_run |-> cap,
                dialect |-> "sqlite"]
    /\ syncIn \in SyncInputs

NextSync ==
    \E fetched \in SUBSET NextChanged :
        \E listFails \in AtMostOne(Range(syncIn)), detFails \in AtMostOne(fetched) :
            SyncOnce(fetched, listFails, detFails)

SpecSync ==
    /\ InitSync
    /\ [][NextSync]_vars
    /\ WF_vars(NextSync)
    /\ \A k \in SyncKeys : SF_vars(SyncFetched(k))

\* ------------------------------------------------------------------ claims
\* C1: at every moment at most one task is executing the run body (sync_postis_once
\* entered through run_sync_guarded), whether the loop or a manual trigger started it.
C1_SingleFlight == Cardinality({t \in Tasks : pc[t] \in RunPcs}) <= 1

C1_Witness == \E t \in Callers : pc[Loop] \in RunPcs /\ pc[t] = "waitlock"

\* C2: a trigger_manual_sync call made while a run is Running, whoever started that
\* run, returns started = False and creates no task that would run another sync.
C2_NoSecondRunWhileRunning ==
    [][\A c \in Callers :
         (callers[c].state = "idle" /\ callers'[c].state # "idle" /\ SYNC_RUNNING)
            => (callers'[c].started = FALSE /\ pc'[c] = pc[c])]_vars

\* C3: for an existing record, an upsert whose incoming payload has a logical field
\* missing or blank (None, empty or whitespace-only) leaves the stored value of that
\* field unchanged.
C3_BlankNeverOverwrites ==
    [][(ship # Nothing /\ nUpserts' = nUpserts + 1)
         => \A c \in Cols :
              lastShipData'[1][c] \in {None, "", " "} => ship'[1][c] = ship[1][c]]_vars

\* C4: no failure of a single detail fetch or a single upsert aborts the run: every
\* changed identifier is attempted, every payload of a batch is counted as upserted or
\* as an error, and the counters of the run are the last-run summary.
C4_ItemFailuresDoNotAbort ==
    /\ \A t \in Tasks :
         pc[t] = "detailUpsert"
            => /\ local[t].attempted = Range(local[t].changed)
               /\ Len(local[t].details) + local[t].fetch_errors = Len(local[t].changed)
    /\ LAST_STATS = hist.stats
    /\ LAST_STATS # Nothing
         => LET s == LAST_STATS[1]
            IN /\ s.upserted_list + s.upsert_errors_list = s.unique_awbs
               /\ s.fetched_details + s.fetch_errors = s.changed_awbs
               /\ s.upserted_details + s.upsert_errors_details = s.fetched_details

C4_Witness ==
    /\ LAST_STATS # Nothing
    /\ LAST_STATS[1].upsert_errors_list > 0
    /\ LAST_STATS[1].fetch_errors > 0
    /\ LAST_STATS[1].upsert_errors_details > 0
    /\ LAST_STATS[1].upserted_list > 0

\* C5: when one item's upsert fails only that item is rolled back: every item counted
\* as upserted by a batch has its row in the store when the batch has ended.
C5_UpsertedItemsAreStored ==
    LAST_STATS # Nothing
        => /\ Cardinality({a \in AllAwbs : store[a] # "absent"}) >= LAST_STATS[1].upserted_list
           /\ Cardinality({a \in AllAwbs : store[a] = "detail"}) >= LAST_STATS[1].upserted_details

\* C6: within one run the list-level batch has completed before the detail-level
\* batch is handed to the writer.
C6_ListBeforeDetail == \A t \in Tasks : local[t].detailBegun => local[t].listDone

C6_Witness == \E t \in Tasks : pc[t] = "detailUpsert" /\ local[t].detailBegun

\* C7: get_sync_status().running is true exactly while a task holds the single-flight
\* lock, and once the run has returned or raised it is false with running_since empty.
C7_RunningIffGuardHeld ==
    /\ get_sync_status.running = (lockHolder # NoTask)
    /\ get_sync_status.running = (get_sync_status.running_since # Nothing)
    /\ hist.outcome \in {"ok", "failed"}
         => (~get_sync_status.running /\ get_sync_status.running_since = Nothing)

C7_Witness == hist.outcome = "failed" /\ ~SYNC_RUNNING /\ LAST_ERROR # None

\* C8: while the task of an earlier trigger has not finished, a further trigger returns
\* started = False and creates no task; without wait it returns at once with no stats,
\* with wait it awaits that task and returns its stats; a trigger issued when no run is
\* pending or active returns started = True.
C8_TriggerWhilePending ==
    [][\A c \in Callers :
         /\ (callers[c].state = "idle" /\ callers'[c].state # "idle")
              => IF MANUAL_TASK # NoTask /\ pc[MANUAL_TASK] # "done"
                 THEN /\ callers'[c].started = FALSE
                      /\ pc' = pc /\ MANUAL_TASK' = MANUAL_TASK
                      /\ callers'[c].wait
                           => (callers'[c].state = "waiting" /\ callers'[c].task = MANUAL_TASK)
                      /\ ~callers'[c].wait
                           => (callers'[c].state = "returned" /\ callers'[c].stats = Nothing)
                 ELSE ~SYNC_RUNNING => callers'[c].started = TRUE
         /\ (callers[c].state = "waiting" /\ callers'[c].state = "returned")
              => /\ taskResult[callers[c].task].kind = "stats"
                 /\ callers'[c].stats = Some(taskResult[callers[c].task].stats)]_vars

C8_Witness ==
    \E c \in Callers :
        /\ callers[c].state = "returned" /\ callers[c].wait /\ ~callers[c].started
        /\ callers[c].stats # Nothing

\* C9 as claimed: last_stats is what the most recent run returned and last_error is the
\* message of the most recent error, also while a later run is in progress.
C9_StatusShowsLastError == LAST_STATS = hist.stats /\ LAST_ERROR = hist.error

\* C9 amended: last_stats is what the most recent run that returned stats returned;
\* last_error is the message of the most recent run when that run raised and no run has
\* started since, and empty otherwise (every run start clears it).
C9_StatusClearsErrorAtStart ==
    /\ LAST_STATS = hist.stats
    /\ LAST_ERROR = IF hist.outcome = "failed" THEN hist.error ELSE None

C9_Witness == hist.outcome = "running" /\ hist.error # None /\ LAST_ERROR = None

\* C10: cancelling the loop never interrupts a run in flight (the run proceeds to its
\* end before the loop stops).
C10_CancelNeverInterruptsRun == cancelledAt \notin RunPcs

\* C11: once the loop task has been cancelled, at whichever await, it neither holds nor
\* waits for the single-flight lock, running is true only while another task holds the
\* lock, running_since is empty exactly when running is false, and a trigger issued
\* afterwards starts a run (the witness has such a run completed after a cancellation
\* inside a run).
C11_CancelLeavesStateConsistent ==
    pc[Loop] = "cancelled"
        => /\ lockHolder # Loop
           /\ Loop \notin Range(lockWaiters)
           /\ SYNC_RUNNING = (lockHolder # NoTask)
           /\ (SYNC_RUNNING_SINCE = Nothing) = ~SYNC_RUNNING

C11_Witness ==
    /\ pc[Loop] = "cancelled"
    /\ cancelledAt \in RunPcs
    /\ ~SYNC_RUNNING /\ lockHolder = NoTask
    /\ \E c \in Callers :
         /\ callers[c].started
         /\ taskResult[c].kind = "stats"
         /\ taskResult[c].stats.started_at > hist.cancelClock

\* C12: a request answered 401 is sent again once, after one re-login, and never a
\* third time: no request (list page, primary detail, resolve) is sent more than twice.
C12_OneRetryOn401 == cl.sent <= 1

\* C13: a detail request answered 429 is retried: after a 429 the client's next request
\* is the same request again.
C13_RetriedAfter429 ==
    (prev.resp = "429" /\ prev.endpoint \in {"resolve", "primary"})
        => (cl.pc = prev.endpoint /\ cl.target = prev.cand /\ cl.sent >= 1)

\* C14 as claimed: when a detail fetch in which the resolve endpoint answered 405 or
\* 501 has ended, the primary endpoint has been queried with each of its candidates.
C14_PrimaryAskedForEachCandidate ==
    (cl.unsup /\ cl.pc \in {"done", "raised"}) => Range(cl.cands) \subseteq cl.asked

\* C14 amended: a 404, or any failure other than 405/501, makes the client go on to the
\* next candidate (to the second pass after the last one); after a 405 or 501 no further
\* resolve request is sent in that call and the second pass queries the primary endpoint
\* with the candidates in order, each one not already fetched in this call, until a
\* payload scoring GoodEnough is found or a login fails.
C14_ResolveStatusHandling ==
    [][/\ cl'.unsup => cl'.pc # "resolve"
       /\ (cl'.unsup /\ cl'.pc = "done")
            => (Range(cl'.cands) \subseteq cl'.asked \/ cl'.bestScore >= GoodEnough)
       /\ (cl.pc = "resolve" /\ cl' # cl /\ prev'.endpoint = "resolve" /\ prev'.cand = cl.target)
            => /\ prev'.resp \in {"405", "501"} => (cl'.unsup /\ cl'.pc \in {"primary", "done"})
               /\ (prev'.resp \in {"404", "429", "500", "exc"} \/ (prev'.resp = "401" /\ cl.sent >= 1))
                    => IF cl.i < Len(cl.cands)
                       THEN cl'.pc = "resolve" /\ cl'.target = cl.cands[cl.i + 1] /\ cl'.sent = 0
                       ELSE cl'.pass = "second" /\ cl'.pc \in {"primary", "done"}]_vars

C14_Witness ==
    /\ cl.pc = "done" /\ cl.unsup
    /\ cl.cands = <<"full", "core">>
    /\ cl.i > 2
    /\ cl.asked = {"full", "core"}
    /\ cl.bestScore < GoodEnough

\* C15: once the resolve endpoint has answered 405 or 501 in a run, no later detail
\* fetch of the run sends a request to it.
C15_NoResolveAfterUnsupported == unsupCall # 0 => cl.pc # "resolve"

\* C16 as claimed: an identifier that has a row is in the change set before the cap
\* iff its row lacks raw_data and include_missing_raw is set, or the remote timestamp is
\* present and newer than the stored one, or the remote status differs from the stored
\* one ignoring case, or the remote processing status differs from the stored one
\* ignoring case.
C16_ChangedIffAnyDifference ==
    chgOut # Nothing
        => \A a \in DOMAIN chgIn.remote_state \cap DOMAIN chgIn.existing :
             LET r == chgIn.remote_state[a]
                 e == chgIn.existing[a]
             IN (a \in Range(chgOut[1].all))
                  <=> \/ a \in chgIn.raw_missing /\ chgIn.include_missing_raw
                      \/ r.dt # NoTime /\ (e.dt = NoTime \/ r.dt > e.dt)
                      \/ Casefold(TextOf(r.status)) # Casefold(TextOf(e.status))
                      \/ Casefold(TextOf(r.proc)) # Casefold(TextOf(e.proc))

\* C16 amended: as above, but a remote status or processing status only counts when
\* the list item has one: a blank remote text never marks the identifier as changed.
C16_ChangedIffRemoteDiffers ==
    chgOut # Nothing
        => \A a \in DOMAIN chgIn.remote_state \cap DOMAIN chgIn.existing :
             LET r == chgIn.remote_state[a]
                 e == chgIn.existing[a]
             IN (a \in Range(chgOut[1].all))
                  <=> \/ a \in chgIn.raw_missing /\ chgIn.include_missing_raw
                      \/ r.dt # NoTime /\ (e.dt = NoTime \/ r.dt > e.dt)
                      \/ TextOf(r.status) # ""
                           /\ Casefold(TextOf(r.status)) # Casefold(TextOf(e.status))
                      \/ TextOf(r.proc) # ""
                           /\ Casefold(TextOf(r.proc)) # Casefold(TextOf(e.proc))

C16_Witness ==
    /\ chgOut # Nothing
    /\ 1 \in DOMAIN chgIn.existing
    /\ chgIn.remote_state[1] = [dt |-> 1, status |-> "A", proc |-> "A"]
    /\ chgIn.existing[1] = [status |-> "a", dt |-> 1, proc |-> "a"]
    /\ chgIn.raw_missing = {}
    /\ chgOut[1].all = <<>>

\* C17: an identifier of the remote list is counted as new, and is in the change set
\* before the cap, iff no shipments row has that identifier.
C17_NewIffAbsent ==
    chgOut # Nothing
        => LET absent == DOMAIN chgIn.remote_state \ DOMAIN chgIn.existing
           IN /\ chgOut[1].new_count = Cardinality(absent)
              /\ absent \subseteq Range(chgOut[1].all)

C17_Witness ==
    /\ chgOut # Nothing
    /\ chgOut[1].new_count = 1
    /\ DOMAIN chgIn.remote_state = {1, 2}
    /\ chgIn.existing # <<>>
    /\ Len(chgOut[1].all) = 1

\* C18: when more than max_awbs_per_run identifiers are changed, exactly that many are
\* kept, each kept one has a remote timestamp at least as new as each dropped one (None
\* ranks last) and among equal timestamps the greater identifier is kept; otherwise
\* nothing is dropped.
C18_CapKeepsNewest ==
    chgOut # Nothing
        => LET all == Range(chgOut[1].all)
               kept == Range(chgOut[1].changed)
               cap == chgIn.max_awbs_per_run
               dt(a) == chgIn.remote_state[a].dt
           IN IF cap # NoCap /\ Cardinality(all) > cap
              THEN /\ Len(chgOut[1].changed) = cap
                   /\ Cardinality(kept) = cap
                   /\ kept \subseteq all
                   /\ \A k \in kept, d \in all \ kept :
                        dt(k) > dt(d) \/ (dt(k) = dt(d) /\ k > d)
              ELSE chgOut[1].changed = chgOut[1].all

C18_Witness ==
    /\ chgOut # Nothing
    /\ chgIn.max_awbs_per_run = 2
    /\ Len(chgOut[1].all) = 3
    /\ chgOut[1].changed = <<3, 2>>
    /\ chgIn.remote_state[1].dt = NoTime
    /\ chgIn.remote_state[2].dt = 1 /\ chgIn.remote_state[3].dt = 1

\* C19 as claimed: a request with mode full or backfill, or in quick mode with a
\* positive limit, made with credentials while no run is active, is answered 200 with
\* started set, and the run it starts has the limit (or the raised default) as its cap
\* and, in full or backfill mode, include_missing_raw set.
C19_TriggerModesStartWidenedRun ==
    [][LET r == req'
           given == r.limit # Nothing /\ r.limit[1] > 0
       IN (/\ r # req
           /\ creds /\ ~SYNC_RUNNING /\ ~ManualPending /\ LockFree
           /\ (r.mode \in {"full", "backfill"} \/ (r.mode = "quick" /\ given)))
            => /\ r.http = "200"
               /\ \E c \in Callers : callers[c].state = "idle" /\ callers'[c].started
               /\ r.config[1].max_awbs_per_run
                     = (IF given THEN r.limit[1] ELSE DefaultFieldsLimit)
               /\ r.mode \in {"full", "backfill"} => r.config[1].include_missing_raw]_vars

\* C20: without credentials no task is ever inside a run waiting for the gateway or the
\* database, the store stays as it was, and the stats of every run have all counters 0.
C20_UnconfiguredRunDoesNothing ==
    ~creds
        => /\ \A t \in Tasks : pc[t] \notin RunPcs
           /\ store = [a \in AllAwbs |-> "absent"]
           /\ orphan = Nothing
           /\ hist.outcome \in {"none", "ok"}
           /\ LAST_STATS # Nothing
                => \A f \in {"list_items", "unique_awbs", "new_awbs", "changed_awbs",
                              "fetched_details", "upserted_list", "upserted_details",
                              "fetch_errors", "upsert_errors_list", "upsert_errors_details"} :
                     LAST_STATS[1][f] = 0

C20_Witness ==
    /\ ~creds
    /\ clock = MaxRuns
    /\ LAST_TRIGGER = "auto"
    /\ LAST_STATS # Nothing /\ LAST_STATS[1].started_at = MaxRuns
    /\ ~SYNC_RUNNING

\* C21: a run whose change set is empty never reaches a detail fetch or the detail
\* batch; when its list-level batch ends the run returns stats in which every unique
\* identifier of the list is counted as upserted or as a list-level error, and
\* fetched_details and upserted_details are 0.
C21_EmptyChangeSetRun ==
    /\ [](\A t \in Tasks :
            ~(pc[t] \in RunPcs /\ local[t].listDone /\ local[t].changed = <<>>))
    /\ [](\A t \in Tasks :
            pc[t] \in {"detailFetch", "detailUpsert"} => local[t].changed # <<>>)
    /\ [][\A t \in Tasks :
            (pc[t] = "listUpsert" /\ local[t].changed = <<>>
               /\ pc'[t] \notin {"listUpsert", "cancelled"})
              => /\ local[t].attempted = {} /\ local[t].inflight = {}
                 /\ LAST_STATS' # Nothing
                 /\ LET st == LAST_STATS'[1]
                    IN /\ st.changed_awbs = 0
                       /\ st.fetched_details = 0 /\ st.upserted_details = 0
                       /\ st.fetch_errors = 0 /\ st.upsert_errors_details = 0
                       /\ st.unique_awbs = Cardinality(local[t].by_awb)
                       /\ st.upserted_list + st.upsert_errors_list = st.unique_awbs
                       /\ (st.upsert_errors_list = 0 /\ local[t].by_awb # {})
                            => st.upserted_list > 0]_vars

C21_Witness ==
    /\ LAST_STATS # Nothing
    /\ LAST_STATS[1].started_at = 2
    /\ LAST_STATS[1].changed_awbs = 0
    /\ LAST_STATS[1].unique_awbs = NumAwbs
    /\ LAST_STATS[1].upserted_list = NumAwbs
    /\ LAST_STATS[1].fetched_details = 0
    /\ \A a \in RunAwbs : store[a] # "absent"

\* C22 as claimed, a run starting when it takes the lock: run k+1 of the loop never
\* begins before the beginning of run k plus the interval, it begins the moment run k
\* ends when run k lasted longer than the interval, and the jitter precedes the first
\* run only.
C22_NextRunFromStart ==
    /\ poll.at = "jitter" => lastRun = Nothing
    /\ (poll.at = "run" /\ lastRun # Nothing)
         => /\ poll.began >= lastRun[1].began + IntervalTicks
            /\ lastRun[1].ended - lastRun[1].began > IntervalTicks
                 => poll.began = lastRun[1].ended

\* C22 amended: the interval is measured from the moment the loop called run k, before
\* it waited for the lock. The loop does not call run k+1 before that moment plus the
\* interval, it calls it the moment run k ends when that is no earlier, and run k+1
\* begins when it is called unless it had to queue behind a manual run.
C22_NextRunFromCall ==
    /\ poll.at = "jitter" => lastRun = Nothing
    /\ (poll.at = "sleep" /\ lastRun # Nothing)
         => /\ poll.next_run = lastRun[1].asked + IntervalTicks
            /\ poll.next_run > lastRun[1].ended
    /\ (poll.at \in {"run", "lock"} /\ lastRun # Nothing)
         => /\ poll.run_started >= lastRun[1].asked + IntervalTicks
            /\ lastRun[1].ended - lastRun[1].asked >= IntervalTicks
                 => poll.run_started = lastRun[1].ended
    /\ poll.at = "run" => (poll.began = poll.run_started \/ poll.queued)
    /\ poll.at = "lock" => guardOwner = "manual"

C22_Witness ==
    /\ poll.at = "run"
    /\ lastRun # Nothing
    /\ lastRun[1].ended - lastRun[1].asked > IntervalTicks
    /\ lastRun[1].began > lastRun[1].asked
    /\ poll.queued /\ poll.began > poll.run_started

\* C23: in every run the number of detail fetches past the semaphore at the same time
\* is at most max(1, concurrency), and a fetch is in flight only during the detail phase.
C23_FetchesWithinWidth ==
    \A t \in Tasks :
        /\ Cardinality(local[t].inflight) <= (IF cfg.concurrency >= 1 THEN cfg.concurrency ELSE 1)
        /\ local[t].inflight # {} => pc[t] = "detailFetch"
        /\ local[t].inflight \subseteq Range(local[t].changed)

C23_Witness ==
    /\ cfg.concurrency = 1
    /\ Len(local[Loop].changed) = NumAwbs
    /\ Cardinality(local[Loop].inflight) = 1
    /\ local[Loop].pending # <<>>

\* C24: the table, committed or as the open transaction sees it, never has two rows
\* with the same awb, every awb is a non-empty string that normalize leaves as it is,
\* and no step removes a committed row.
C24_OneCanonicalRowPerKey ==
    /\ [](\A rows \in {table, session} :
            /\ \A i, j \in 1 .. Len(rows) : rows[i].awb = rows[j].awb => i = j
            /\ \A i \in 1 .. Len(rows) :
                 /\ rows[i].awb # <<>>
                 /\ normalize_shipment_identifier(rows[i].awb) = rows[i].awb
                 /\ rows[i].awb = get_awb(rows[i].raw))
    /\ [][\A i \in 1 .. Len(table) :
            \E j \in 1 .. Len(table') : table'[j].awb = table[i].awb]_vars

C24_Witness ==
    /\ Len(table) = 3
    /\ \E i \in 1 .. Len(table) :
         /\ table[i].awb = Core10
         /\ table[i].raw = Core10 \o <<"0", "0", "2">>
    /\ \E i \in 1 .. Len(table) : table[i].awb = Core10 \o <<"0", "0", "1">>
    /\ \E i \in 1 .. Len(table) : table[i].awb = Core10 \o <<"0", "0", "0">>

\* C25: the upsert writer never assigns ownership: a row it creates has no driver and
\* no recipient pin, and on an existing row it leaves driver_id and recipient_pin as
\* they were, whatever ship_data holds under those names.
C25_UpsertKeepsOwnership ==
    [][callParity' # callParity
          => IF rec = Nothing
             THEN rec'[1].driver_id = None /\ rec'[1].recipient_pin = None
             ELSE /\ rec'[1].driver_id = rec[1].driver_id
                  /\ rec'[1].recipient_pin = rec[1].recipient_pin]_vars

C25_Witness ==
    /\ rec # Nothing /\ lastCall # Nothing
    /\ rec[1].driver_id = "D1" /\ rec[1].recipient_pin = "P1"
    /\ lastCall[1].driver_id = "D2" /\ lastCall[1].recipient_pin = "P2"
    /\ lastCall[1].recipientLocation # <<>>
    /\ rec[1].recipient_location = <<merge_nonempty_dict(rec[1].recipient_location[1],
                                                        lastCall[1].recipientLocation[1])>>
    /\ now > 0

\* C26: on an existing row an upsert merges a nested map column key by key: a key whose
\* incoming value is missing or blank keeps the stored value, every other key takes
\* the incoming value, and where both values are maps the same holds one level down;
\* the stored map is never replaced as a whole by a partial incoming map.
BlankValue(v) ==
    \/ v = Absent
    \/ v \in {Scalar(None), Scalar(""), Scalar(" ")}
    \/ v = MapOf(NoSub)
C26_NestedMapsMergeByKey ==
    [][(callParity' # callParity /\ rec # Nothing /\ rec[1].recipient_location # <<>>)
          => LET old == rec[1].recipient_location[1]
                 new == rec'[1].recipient_location[1]
                 inc == PayloadLocation(lastCall'[1])
             IN \A k \in ObjKeys :
                  IF BlankValue(inc[k]) THEN new[k] = old[k]
                  ELSE IF inc[k].kind = "map" /\ old[k].kind = "map"
                  THEN /\ new[k].kind = "map"
                       /\ \A sk \in SubKeys :
                            new[k].m[sk] = IF inc[k].m[sk] \in {Missing, None, "", " "}
                                           THEN old[k].m[sk]
                                           ELSE inc[k].m[sk]
                  ELSE new[k] = inc[k]]_vars

C26_Witness ==
    /\ rec # Nothing /\ lastCall # Nothing
    /\ lastCall[1].recipientLocation = <<[address |-> Scalar(" "), cost |-> MapOf([lat |-> None])]>>
    /\ rec[1].recipient_location = <<[address |-> Scalar("b"), cost |-> MapOf([lat |-> "b"])]>>

\* C27: the upsert is idempotent: applying the ship_data of the latest upsert once more
\* leaves the columns and the event history of the row as the first application left
\* them (last_updated, which the row model leaves out, aside).
C27_UpsertIdempotent ==
    [][(callParity' # callParity /\ lastCall' = lastCall) => rec' = rec]_vars

\* C28: a payload without a resolvable identifier is rejected before a shipments row is
\* read or written: the batch writer counts one error, every row there is afterwards
\* was there before, committed or pending, every committed row stays, on sqlite the
\* committed table is exactly as before and on postgresql the rows the writer sees are.
NoIdentifier(raw) == \A i \in 1 .. Len(raw) : raw[i] \notin Letters \cup Digits \cup {"a", "b"}
C28_MissingIdentifierRejected ==
    [][\A raw \in AwbInputs :
         (NoIdentifier(raw) /\ UpsertKey(raw, TRUE))
            => /\ keyErrors' = keyErrors + 1
               /\ \A rows \in {session', table'} :
                    \A j \in 1 .. Len(rows) :
                       \/ \E i \in 1 .. Len(session) : session[i] = rows[j]
                       \/ \E i \in 1 .. Len(table) : table[i] = rows[j]
               /\ \A i \in 1 .. Len(table) :
                    \E j \in 1 .. Len(table') : table'[j].awb = table[i].awb
               /\ cfg.dialect = "sqlite" => table' = table
               /\ cfg.dialect = "postgresql" => session' = session]_vars

C28_Witness ==
    /\ keyErrors = 1
    /\ Len(table) = 2
    /\ session = table

\* C29: _merge_fill_blanks(A, B) keeps every non-blank field of A and takes B's value
\* for a field that is blank or missing in A; where the field is a non-blank map in A
\* and a map in B the same holds for the keys of that map; merging the result with the
\* same B once more gives the same result.
C29_MergeFillBlanks ==
    mergeOut # <<>>
       => LET A == mergeIn[1].primary
              B == mergeIn[1].secondary
              R == mergeOut[1]
          IN /\ \A k \in ObjKeys :
                  IF BlankValue(A[k]) THEN R[k] = IF B[k] = Absent THEN A[k] ELSE B[k]
                  ELSE IF A[k].kind = "map" /\ B[k].kind = "map"
                  THEN /\ R[k].kind = "map"
                       /\ \A sk \in SubKeys :
                            R[k].m[sk] =
                               IF A[k].m[sk] \in {Missing, None, "", " "} /\ B[k].m[sk] # Missing
                               THEN B[k].m[sk]
                               ELSE A[k].m[sk]
                  ELSE R[k] = A[k]
             /\ Len(mergeOut) = 2 => mergeOut[2] = R

C29_Witness ==
    /\ mergeIn = Some([primary |-> [address |-> Scalar(""), cost |-> Scalar("a")],
                       secondary |-> [address |-> Scalar("b"), cost |-> Scalar(None)]])
    /\ mergeOut = <<[address |-> Scalar("b"), cost |-> Scalar("a")],
                    [address |-> Scalar("b"), cost |-> Scalar("a")]>>

\* C30: for every raw text that is not blank the candidate list is not empty, has at
\* most MaxCandidates entries and contains normalize of the text.
C30_CandidatesHoldNormalized ==
    (candOut # Nothing /\ StripText(rawIn) # <<>>)
       => LET c == candOut[1]
          IN /\ Len(c) >= 1
             /\ Len(c) <= MaxCandidates
             /\ \E i \in 1 .. Len(c) : c[i] = normalize_shipment_identifier(rawIn)

\* C31: a candidate (a token of the text or the normalized text) of SuffixMinLen
\* characters or more that holds a letter and ends in three digits other than "000",
\* with a core of CoreMinLen or more, has its core in the list after it; every entry is
\* a candidate or such a core; and "AB123" yields the list of "AB123" alone.
StripsSuffix(c) ==
    /\ Len(c) >= SuffixMinLen
    /\ \E i \in 1 .. Len(c) : c[i] \in Letters
    /\ \A i \in Len(c) - 2 .. Len(c) : c[i] \in Digits
    /\ SubSeq(c, Len(c) - 2, Len(c)) # <<"0", "0", "0">>
    /\ Len(c) - SuffixLen >= CoreMinLen
CoreOf(c) == SubSeq(c, 1, Len(c) - SuffixLen)
IsCandidate(e) ==
    LET parts == Tokens(Upper(StripText(rawIn)), <<>>)
    IN \/ e = normalize_shipment_identifier(rawIn)
       \/ \E k \in 1 .. Len(parts) : parts[k] = e
C31_CoreFollowsFullForm ==
    candOut # Nothing
       => LET c == candOut[1]
          IN /\ \A i \in 1 .. Len(c) :
                  (IsCandidate(c[i]) /\ StripsSuffix(c[i]))
                     => \E j \in i + 1 .. Len(c) : c[j] = CoreOf(c[i])
             /\ \A j \in 1 .. Len(c) :
                  \/ IsCandidate(c[j])
                  \/ \E i \in 1 .. j - 1 : StripsSuffix(c[i]) /\ c[j] = CoreOf(c[i])
             /\ rawIn = <<"A", "B", "1", "2", "3">> => c = <<rawIn>>

\* C32: normalize(x) holds only upper-case letters and digits, is empty for a blank x,
\* and normalize(normalize(x)) = normalize(x).
C32_NormalizeIdempotent ==
    normOut # <<>>
       => /\ \A i \in 1 .. Len(normOut[1]) : normOut[1][i] \in {"A", "B"} \cup Digits
          /\ (\A i \in 1 .. Len(rawIn) : rawIn[i] = " ") => normOut[1] = <<>>
          /\ Len(normOut) = 2 => normOut[2] = normOut[1]

C32_Witness ==
    /\ rawIn = <<"a", "b", "-", "1", "2", "3", "4", " ", "5", "6", "7", "8">>
    /\ normOut = <<<<"A", "B", "1", "2", "3", "4", "5", "6", "7", "8">>,
                   <<"A", "B", "1", "2", "3", "4", "5", "6", "7", "8">>>>

\* C33: a payload with a populated recipient address, phone and cost scores higher than
\* a payload that carries only an identifier (or nothing at all).
C33_RichOutscoresIdentifierOnly ==
    (scoreIn # Nothing /\ Len(scoreOut) = 2)
       => LET p1 == scoreIn[1][1]
              p2 == scoreIn[1][2]
          IN ({"address", "phone", "cost"} \subseteq p1.f /\ p2.f = {})
                => scoreOut[1] > scoreOut[2]

C33_Witness ==
    /\ scoreIn = Some(<<[f |-> {"address", "phone", "cost"}, awb |-> None],
                        [f |-> {}, awb |-> "core"]>>)
    /\ scoreOut = <<6, 2>>

\* C34: when the detail fetch returns, the payload returned scores at least as high as
\* every resolve result, detail result and merge the call obtained, unless the best score
\* had reached the good-enough threshold; it returns the empty payload only when the call
\* obtained no non-empty payload.
C34_ReturnsBestScoring ==
    (cl.pc = "done" /\ cl.cands # <<>>)
       => /\ cl.bestScore >= GoodEnough \/ \A sc \in cl.seen : Score(cl.best) >= sc
          /\ IsEmpty(cl.best) => cl.seen = {}

\* A merge (7) outscored the resolve result (2) and the detail result (5), and the later
\* and thinner answers did not displace it.
C34_Witness ==
    /\ cl.pc = "done"
    /\ cl.seen = {2, 5, 7}
    /\ Score(cl.best) = 7
    /\ cl.bestScore < GoodEnough

\* Everything the pages 1 .. k hold, in page order.
RECURSIVE PagesUpTo(_)
PagesUpTo(k) == IF k = 0 THEN <<>> ELSE PagesUpTo(k - 1) \o get_shipments(k)
ShortPage(k) == Len(get_shipments(k)) < PageSize
ListInOrder == lst.asked = [i \in 1 .. Len(lst.asked) |-> i]
ListStopsAtShortPage ==
    LET n == Len(lst.asked)
    IN /\ \A k \in 1 .. n - 1 : ~ShortPage(k)
       /\ lst.pc = "done" <=> (n > 0 /\ ShortPage(n))

\* C35 as stated: pages 1, 2, 3, ... are requested in order, the fetch stops after the
\* first page that is empty or short, returns the concatenation of the pages requested,
\* and terminates.
C35_ListFetchConcatenatesPages ==
    /\ [](/\ ListInOrder
          /\ ListStopsAtShortPage
          /\ lst.pc = "done" => lst.out = PagesUpTo(Len(lst.asked)))
    /\ <>(lst.pc = "done")

\* C35, amended: as above, and the result is the concatenation of the dictionary entries
\* of the pages requested; an entry that is no dictionary counts for the page length
\* and is left out of the result.
C35_ListFetchConcatenatesDictEntries ==
    /\ [](/\ ListInOrder
          /\ ListStopsAtShortPage
          /\ lst.pc = "done" => lst.out = SelectSeq(PagesUpTo(Len(lst.asked)), IsDict))
    /\ <>(lst.pc = "done")

C35_Witness ==
    /\ listIn = <<<<"a", "junk">>, <<"b", "a">>, <<"b">>>>
    /\ lst.pc = "done"
    /\ lst.asked = <<1, 2, 3>>
    /\ lst.out = <<"a", "b", "a", "b">>

\* The row of the shipment of identifier k holds a detail payload.
HasDetail(k) == \E r \in sync.rows : r.awb = RowKey[k] /\ r.raw

\* C36: in quick mode without include_missing_raw, every identifier that enters the
\* change set of a run, cut off by the cap or not, eventually has its detail payload
\* stored, when runs keep being scheduled and detail fetches eventually succeed.
C36_ChangedEventuallyStored ==
    \A k \in SyncKeys :
        (~cfg.include_missing_raw /\ k \in sync.all) ~> HasDetail(k)

\* C37: in quick mode without include_missing_raw, after a run that met no error the
\* next run computes an empty change set, and no identifier is in the change sets of two
\* consecutive runs that met no error.
C37_RunsConverge ==
    (~cfg.include_missing_raw /\ Len(sync.runs) = 2)
       => /\ sync.runs[1].clean => sync.runs[2].changed = {}
          /\ (sync.runs[1].clean /\ sync.runs[2].clean)
                => sync.runs[1].changed \cap sync.runs[2].changed = {}

\* C38: an upsert of a list payload (store_raw_data off) leaves the raw payload of every
\* existing row as it is, and a row it creates has none; such a row has none until an
\* upsert of a detail payload stores it.
C38_ListUpsertKeepsRaw ==
    [][\A raw \in RawInputs :
          (UpsertKey(raw, FALSE) /\ ~NoIdentifier(raw))
             => /\ Len(session') >= Len(session)
                /\ \A i \in 1 .. Len(session) : session'[i].raw = session[i].raw
                /\ \A i \in (Len(session) + 1) .. Len(session') : session'[i].raw = NoRaw]_vars

\* A row with the detail payload of a parcel label, upserted from the list afterwards, and
\* a row the list-level upsert created.
C38_Witness ==
    /\ Len(session) = 2
    /\ session[1] = [awb |-> Core10, raw |-> Core10 \o <<"0", "0", "2">>]
    /\ session[2] = [awb |-> Num10 \o <<"0", "0", "1">>, raw |-> NoRaw]

\* C39: when a run of the scheduled loop ends with an error, the loop goes on: the next
\* run is scheduled at the failed run's run_started plus the interval, the lock is
\* released, and the error message is the last error until another run takes the lock.
C39_FailedRunKeepsLoop ==
    [][(lastRun' # lastRun /\ lastRun'[1].raised)
          => /\ poll'.at \in {"sleep", "run", "lock"}
             /\ poll'.next_run = lastRun'[1].asked + IntervalTicks
             /\ poll'.at = "sleep" => (poll'.next_run > now /\ guardOwner' # "loop")
             /\ poll'.at = "run" => (poll'.next_run <= now /\ guardOwner' = "loop")
             /\ poll'.at = "lock" => (guardOwner' = "manual" /\ guardWaiter' = "loop")
             /\ (poll'.at = "sleep" /\ guardOwner' = "none")
                   => poll'.last_error = SyncFailed]_vars

\* The same with the next run counted from the moment the failed run took the lock.
C39_FailedRunKeepsLoopFromStart ==
    [][(lastRun' # lastRun /\ lastRun'[1].raised)
          => /\ poll'.at \in {"sleep", "run", "lock"}
             /\ poll'.next_run = lastRun'[1].began + IntervalTicks
             /\ poll'.at = "sleep" => guardOwner' # "loop"
             /\ (poll'.at = "sleep" /\ guardOwner' = "none")
                   => poll'.last_error = SyncFailed]_vars

\* The run after a failed run, begun at the failed run's run_started plus the interval.
C39_Witness ==
    /\ lastRun # Nothing
    /\ lastRun[1].raised
    /\ lastRun[1].ended < lastRun[1].asked + IntervalTicks
    /\ poll.at = "run"
    /\ poll.began = lastRun[1].asked + IntervalTicks

\* C40: in the summary every run returns, each attempted item is counted once, as a
\* success or as an error: the detail fetches add up to the capped change set, the
\* list-level upserts to the unique identifiers of the list, and the detail-level
\* upserts to the fetched details.
C40_SummaryCountsEachItemOnce ==
    [][(LAST_STATS' # LAST_STATS)
          => LET s == LAST_STATS'[1]
                 l == local[Loop]
             IN /\ \A f \in {"fetched_details", "fetch_errors", "upserted_list",
                             "upsert_errors_list", "upserted_details",
                             "upsert_errors_details"} : s[f] >= 0
                /\ s.changed_awbs = Len(l.changed)
                /\ cfg.max_awbs_per_run # NoCap => s.changed_awbs <= cfg.max_awbs_per_run
                /\ s.fetched_details + s.fetch_errors = s.changed_awbs
                /\ s.unique_awbs = Cardinality(l.by_awb)
                /\ s.upserted_list + s.upsert_errors_list = s.unique_awbs
                /\ s.upserted_details + s.upsert_errors_details = s.fetched_details]_vars

\* A summary of a capped run with a failed list-level upsert and a failed detail-level one.
C40_Witness ==
    /\ LAST_STATS # Nothing
    /\ cfg.max_awbs_per_run = 1
    /\ LAST_STATS[1].unique_awbs > 1
    /\ LAST_STATS[1].changed_awbs = 1
    /\ LAST_STATS[1].upsert_errors_list = 1
    /\ LAST_STATS[1].fetched_details = 1
    /\ LAST_STATS[1].upsert_errors_details = 1

====
